---- MODULE Spec2Model ----
(***************************************************************************)
(* A model of the ore-hq-server accounting core:                           *)
(*   - src/src/systems/cache_update_system.rs : the four cache refresh     *)
(*     tasks and the RwLock-guarded caches they publish into;              *)
(*   - src/src/app_database.rs : the ledger statements (rewards,           *)
(*     stake_accounts, challenges).                                        *)
(* SpecCache runs the refresh tasks; SpecLedger runs ledger calls one at a *)
(* time; SpecResubmit adds callers that submit a batch twice;              *)
(* SpecConcurrent runs two ledger calls concurrently; SpecRowCount runs    *)
(* the single-row inserts and updates; SpecTxns, SpecSignup and SpecClaim  *)
(* run add_new_txn, signup_user_transaction and the calls of a claim;      *)
(* SpecChain runs get_proof_and_config_with_busses (src/src/ore_utils.rs); *)
(* SpecScan runs a paginated scan of a static table.                       *)
(***************************************************************************)
EXTENDS Integers, Sequences, FiniteSets, TLC

(***************************************************************************)
(* Bounds of the model.                                                    *)
(***************************************************************************)
\* number of clock advances explored
MaxTicks == 2
\* number of distinct blockhashes / database result sets a fetch may return
NumValues == 2
\* number of slots of one batched account read that may be absent or undecodable
\* (the read with every slot absent is always included)
MaxFaultySlots == 1
\* the largest value of an unsigned 64-bit column, scaled down
MaxU64 == 4
\* the largest delta, amount or balance a caller submits
MaxDelta == 2
\* accounts of one get_proof_and_config_with_busses read that may be absent
\* or of a wrong layout
MaxFaultyAccounts == 2
\* the largest number of rows of a scanned table
MaxRows == 1200
\* the largest gap between consecutive ids of a scanned table
MaxStride == 2
\* rows a behaviour inserts into one table
MaxInserts == 1
\* rows of submissions_2 after which no batch is added
MaxSubmissions == 3
\* nonces of the submissions added
NumNonces == 2
\* bits of the signed and unsigned integers of get_cutoff (64, scaled down)
TimeBits == 7

(***************************************************************************)
(* Program constants (cache_update_system.rs:12-15, :42).                  *)
(***************************************************************************)
CACHED_BOOST_MULTIPLIER_UPDATE_INTERVAL == 15
CACHED_LAST_CHALLENGE_SUBMISSIONS_UPDATE_INTERVAL == 15
CACHED_CHALLENGES_UPDATE_INTERVAL == 15
CACHED_LATEST_BLOCKHASH_UPDATE_INTERVAL == 5
\* Duration::from_secs(2000) in the latest-blockhash retry branch
LATEST_BLOCKHASH_RETRY_SECS == 2000
\* LIMIT 500 of the paginated queries (app_database.rs:733, :806, :1154)
PAGE_LIMIT == 500
\* saturating_add(60) of get_cutoff (ore_utils.rs:414)
CUTOFF_WINDOW_SECS == 60

Caches == {"latest_blockhash", "boost_multiplier", "last_challenge_submissions", "challenges"}
StatsCaches == {"boost_multiplier", "last_challenge_submissions", "challenges"}
DbCaches == {"last_challenge_submissions", "challenges"}

\* the three boost mints of the boost-multiplier task, by position
BoostMints == <<"oreoU2P8", "DrSS5RM7", "meUwDp23">>

Readers == {"r1"}

VARIABLES
    \* ---- cache refresh subsystem ----
    stats_enabled,      \* app_config.stats_enabled
    responsive,         \* the caches whose data source answers in this behaviour
    started,            \* cache_update_system has run
    task_pc,            \* per cache: position of its refresh task
    fetch_result,       \* per cache: outcome of the current cycle's fetch
    fetched,            \* per cache: the candidate value computed by the current cycle
    item,               \* per cache: the published item
    last_updated_at,    \* per cache: the published timestamp
    published,          \* per cache: the (item, last_updated_at) pair of the last completed publish
    write_locked,       \* per cache: a writer holds the RwLock
    read_holders,       \* per cache: readers holding the RwLock
    wake_at,            \* per cache: deadline of the task's current sleep
    now,                \* the clock (seconds)
    ticks,              \* clock advances so far
    reader_pc,          \* per reader: position
    reader_cache,       \* per reader: the cache it reads
    observed,           \* per reader: the (item, last_updated_at) it has read
    \* ---- ledger ----
    workload,           \* the family of operations the callers of this behaviour use
    db,                 \* the tables: rewards, stake_accounts, challenges
    ledger_pc,          \* per caller: "idle", "called" (awaiting the call), "returned"
    call,               \* per caller: the current call (op, args) and its result
    before,             \* per caller: the tables when the current call was issued
    applied_net,        \* per rewards row: deltas added minus amounts removed by calls that returned Ok
    first_attempt,      \* per caller: result and tables-before of the call it is submitting again
    \* ---- chain reads (ore_utils.rs) ----
    busses_pc,          \* position of a get_proof_and_config_with_busses call
    datas,              \* what get_multiple_accounts returned to it
    busses_result,      \* the triple it returned
    \* ---- paginated scans (app_database.rs) ----
    scan_op,            \* the paginated query a scan uses
    scan_rows,          \* the scanned table, in storage order
    scan_pc,            \* "idle", "scanning", "done", "failed"
    last_id,            \* the scan's cursor
    pages,              \* the pages the scan has received
    \* ---- claim processing (calls of app_database.rs) ----
    claim_pc,           \* "idle", "running", "completed", "failed"
    claim,              \* the claim in progress: its inputs, the steps done, the txn id found
    \* ---- open transactions (signup_user_transaction) ----
    tx,                 \* per caller: "none", or "inserted" (its miners row is written, not committed)
    \* ---- the cutoff of a proof (ore_utils.rs get_cutoff) ----
    cutoff              \* the call: its arguments, the clock it read, what it returned

cacheVars == <<stats_enabled, responsive, started, task_pc, fetch_result, fetched, item,
               last_updated_at, published, write_locked, read_holders, wake_at, now, ticks>>
readerVars == <<reader_pc, reader_cache, observed>>
ledgerVars == <<workload, db, ledger_pc, call, before, applied_net, first_attempt>>
chainVars == <<busses_pc, datas, busses_result>>
scanVars == <<scan_op, scan_rows, scan_pc, last_id, pages>>
claimVars == <<claim_pc, claim>>
txVars == <<tx>>
cutoffVars == <<cutoff>>
utilVars == <<chainVars, scanVars, claimVars, txVars, cutoffVars>>
vars == <<cacheVars, readerVars, ledgerVars, utilVars>>

\* no value yet (an empty text, an empty list)
NoValue == <<>>

(***************************************************************************)
(* Values.                                                                 *)
(***************************************************************************)
UpdateInterval(c) ==
    CASE c = "latest_blockhash" -> CACHED_LATEST_BLOCKHASH_UPDATE_INTERVAL
      [] c = "boost_multiplier" -> CACHED_BOOST_MULTIPLIER_UPDATE_INTERVAL
      [] c = "last_challenge_submissions" -> CACHED_LAST_CHALLENGE_SUBMISSIONS_UPDATE_INTERVAL
      [] c = "challenges" -> CACHED_CHALLENGES_UPDATE_INTERVAL

\* bincode::serialize(&lbhash) then BASE64_STANDARD.encode(..): an injective
\* text encoding of the (hash, last valid block height) pair
EncodeBlockhash(lbhash) == <<"base64", <<"bincode", lbhash>>>>

\* the empty value (empty text, empty list) each cache holds before its first publish
EmptyItem(c) == <<>>


(***************************************************************************)
(* The boost-multiplier fetch (cache_update_system.rs:78-122).              *)
(* The batched read asks for the three stake PDAs, then the three boost    *)
(* PDAs.  A slot of the answer is "absent" (None), "stake" / "boost" (an   *)
(* account that decodes as that kind) or "junk" (decodes as neither).      *)
(***************************************************************************)
SlotKinds(i) == {"absent", "junk", IF i <= 3 THEN "stake" ELSE "boost"}

\* the mint a slot of the batched read belongs to
SlotMint(i) == BoostMints[IF i <= 3 THEN i ELSE i - 3]

FaultySlots(r) == {i \in 1..6 : r[i] \in {"absent", "junk"}}

AccountReads == {r \in [1..6 -> {"absent", "junk", "stake", "boost"}] :
                    /\ \A i \in 1..6 : r[i] \in SlotKinds(i)
                    /\ \/ Cardinality(FaultySlots(r)) <= MaxFaultySlots
                       \/ \A i \in 1..6 : r[i] = "absent"}

\* the slots, in order, whose account decodes as kind k (the two pushes of
\* the loop over the returned accounts)
RECURSIVE DecodedOfKind(_, _, _)
DecodedOfKind(accounts, k, i) ==
    IF i > 6 THEN <<>>
    ELSE (IF accounts[i] = k THEN <<SlotMint(i)>> ELSE <<>>) \o DecodedOfKind(accounts, k, i + 1)

\* the BoostMultiplierData list built from stake_acct and boost_acct; the
\* entry at index i pairs stake_acct[i] with boost_acct[i]
BoostMultiplierDatas(stake_acct, boost_acct) ==
    [i \in 1..Len(stake_acct) |->
        [boost_mint |-> boost_acct[i],
         staked_balance |-> <<"balance", stake_acct[i]>>,
         total_stake_balance |-> <<"total_stake", boost_acct[i]>>,
         multiplier |-> <<"multiplier", boost_acct[i]>>]]

\* boost_acct[index] is out of bounds for some index of stake_acct
BoostIndexPanics(stake_acct, boost_acct) == Len(stake_acct) > Len(boost_acct)

(***************************************************************************)
(* cache_update_system: spawns the tasks.                                  *)
(***************************************************************************)
CacheUpdateSystem ==
    /\ ~started
    /\ started' = TRUE
    /\ task_pc' = [c \in Caches |->
                     IF c = "latest_blockhash" \/ stats_enabled THEN "fetch" ELSE "none"]
    /\ UNCHANGED <<stats_enabled, responsive, fetch_result, fetched, item, last_updated_at,
                   published, write_locked, read_holders, wake_at, now, ticks, readerVars, ledgerVars, utilVars>>

taskFrame == <<stats_enabled, responsive, started, item, last_updated_at, published, write_locked,
               read_holders, now, ticks, readerVars, ledgerVars, utilVars>>

(***************************************************************************)
(* Latest blockhash task (cache_update_system.rs:30-55).                   *)
(***************************************************************************)
LatestBlockhashFetchOk(lb) ==
    /\ task_pc["latest_blockhash"] = "fetch"
    /\ "latest_blockhash" \in responsive
    /\ fetch_result' = [fetch_result EXCEPT !["latest_blockhash"] = "ok"]
    /\ fetched' = [fetched EXCEPT !["latest_blockhash"] = EncodeBlockhash(lb)]
    /\ task_pc' = [task_pc EXCEPT !["latest_blockhash"] = "write"]
    /\ UNCHANGED <<taskFrame, wake_at>>

\* (a task that leaves the inner loop on Err and publishes what it holds)
LatestBlockhashFetchErrPublishing ==
    /\ task_pc["latest_blockhash"] = "fetch"
    /\ "latest_blockhash" \in responsive
    /\ task_pc' = [task_pc EXCEPT !["latest_blockhash"] = "write"]
    /\ fetch_result' = [fetch_result EXCEPT !["latest_blockhash"] = "err"]
    /\ UNCHANGED <<taskFrame, fetched, wake_at>>

LatestBlockhashFetchErr ==
    /\ task_pc["latest_blockhash"] = "fetch"
    /\ "latest_blockhash" \in responsive
    /\ task_pc' = [task_pc EXCEPT !["latest_blockhash"] = "retry_sleep"]
    /\ fetch_result' = [fetch_result EXCEPT !["latest_blockhash"] = "err"]
    /\ wake_at' = [wake_at EXCEPT !["latest_blockhash"] = now + LATEST_BLOCKHASH_RETRY_SECS]
    /\ UNCHANGED <<taskFrame, fetched>>

\* the retry sleep is over: the inner loop fetches again
LatestBlockhashRetry ==
    /\ task_pc["latest_blockhash"] = "retry_sleep"
    /\ now >= wake_at["latest_blockhash"]
    /\ task_pc' = [task_pc EXCEPT !["latest_blockhash"] = "fetch"]
    /\ UNCHANGED <<taskFrame, fetch_result, fetched, wake_at>>

(***************************************************************************)
(* Boost multiplier task (cache_update_system.rs:61-130).                  *)
(***************************************************************************)
\* what the task does with stake_acct and boost_acct once the read is over
BoostMultiplierAfterRead(stake_acct, boost_acct) ==
    IF BoostIndexPanics(stake_acct, boost_acct)
    THEN /\ task_pc' = [task_pc EXCEPT !["boost_multiplier"] = "panicked"]
         /\ UNCHANGED fetched
    ELSE /\ task_pc' = [task_pc EXCEPT !["boost_multiplier"] = "write"]
         /\ fetched' = [fetched EXCEPT !["boost_multiplier"] =
                           BoostMultiplierDatas(stake_acct, boost_acct)]

BoostMultiplierFetchOk(accounts) ==
    /\ task_pc["boost_multiplier"] = "fetch"
    /\ "boost_multiplier" \in responsive
    /\ fetch_result' = [fetch_result EXCEPT !["boost_multiplier"] = "ok"]
    /\ BoostMultiplierAfterRead(DecodedOfKind(accounts, "stake", 1),
                                DecodedOfKind(accounts, "boost", 1))
    /\ UNCHANGED <<taskFrame, wake_at>>

\* get_multiple_accounts failed: the else branch logs, both lists stay empty
BoostMultiplierFetchErr ==
    /\ task_pc["boost_multiplier"] = "fetch"
    /\ "boost_multiplier" \in responsive
    /\ fetch_result' = [fetch_result EXCEPT !["boost_multiplier"] = "err"]
    /\ BoostMultiplierAfterRead(<<>>, <<>>)
    /\ UNCHANGED <<taskFrame, wake_at>>

(***************************************************************************)
(* Last-challenge-submissions and challenges tasks                         *)
(* (cache_update_system.rs:135-153, 158-176).                              *)
(***************************************************************************)
DbFetchOk(c, rows) ==
    /\ c \in DbCaches
    /\ task_pc[c] = "fetch"
    /\ c \in responsive
    /\ fetch_result' = [fetch_result EXCEPT ![c] = "ok"]
    /\ fetched' = [fetched EXCEPT ![c] = <<"rows", rows>>]
    /\ task_pc' = [task_pc EXCEPT ![c] = "write"]
    /\ UNCHANGED <<taskFrame, wake_at>>

\* Err(_) => {}, then the normal sleep
DbFetchErr(c) ==
    /\ c \in DbCaches
    /\ task_pc[c] = "fetch"
    /\ c \in responsive
    /\ fetch_result' = [fetch_result EXCEPT ![c] = "err"]
    /\ task_pc' = [task_pc EXCEPT ![c] = "sleep"]
    /\ wake_at' = [wake_at EXCEPT ![c] = now + UpdateInterval(c)]
    /\ UNCHANGED <<taskFrame, fetched>>

(***************************************************************************)
(* Publishing (the same four statements in every task):                    *)
(*   let mut writer = cache.write().await;                                 *)
(*   writer.item = value.clone();                                          *)
(*   writer.last_updated_at = Instant::now();                              *)
(*   drop(writer);                                                         *)
(*   tokio::time::sleep(interval).await;                                   *)
(***************************************************************************)
\* (a variant that ignores the readers holding the lock)
CanWriteLockIgnoringReaders(c) == ~write_locked[c]

\* write().await returns once no reader and no writer holds the lock
CanWriteLock(c) == ~write_locked[c] /\ read_holders[c] = {}

AcquireWrite(c) ==
    /\ task_pc[c] = "write"
    /\ CanWriteLock(c)
    /\ write_locked' = [write_locked EXCEPT ![c] = TRUE]
    /\ task_pc' = [task_pc EXCEPT ![c] = "set_item"]
    /\ UNCHANGED <<stats_enabled, responsive, started, fetch_result, fetched, item,
                   last_updated_at, published, read_holders, wake_at, now, ticks, readerVars, ledgerVars, utilVars>>

SetItem(c) ==
    /\ task_pc[c] = "set_item"
    /\ item' = [item EXCEPT ![c] = fetched[c]]
    /\ task_pc' = [task_pc EXCEPT ![c] = "set_last_updated_at"]
    /\ UNCHANGED <<stats_enabled, responsive, started, fetch_result, fetched, last_updated_at,
                   published, write_locked, read_holders, wake_at, now, ticks, readerVars, ledgerVars, utilVars>>

\* (a task that stamps its publish with the time the process started)
SetLastUpdatedAtToStart(c) ==
    /\ task_pc[c] = "set_last_updated_at"
    /\ last_updated_at' = [last_updated_at EXCEPT ![c] = 0]
    /\ task_pc' = [task_pc EXCEPT ![c] = "drop"]
    /\ UNCHANGED <<stats_enabled, responsive, started, fetch_result, fetched, item,
                   published, write_locked, read_holders, wake_at, now, ticks, readerVars, ledgerVars, utilVars>>

SetLastUpdatedAt(c) ==
    /\ task_pc[c] = "set_last_updated_at"
    /\ last_updated_at' = [last_updated_at EXCEPT ![c] = now]
    /\ task_pc' = [task_pc EXCEPT ![c] = "drop"]
    /\ UNCHANGED <<stats_enabled, responsive, started, fetch_result, fetched, item,
                   published, write_locked, read_holders, wake_at, now, ticks, readerVars, ledgerVars, utilVars>>

\* (a task that starts its sleep with the writer still alive)
SleepHoldingWriter(c) ==
    /\ task_pc[c] = "drop"
    /\ task_pc' = [task_pc EXCEPT ![c] = "sleep"]
    /\ wake_at' = [wake_at EXCEPT ![c] = now + UpdateInterval(c)]
    /\ published' = [published EXCEPT ![c] =
                        [item |-> item[c], last_updated_at |-> last_updated_at[c]]]
    /\ UNCHANGED <<stats_enabled, responsive, started, fetch_result, fetched, item,
                   last_updated_at, write_locked, read_holders, now, ticks, readerVars, ledgerVars, utilVars>>

\* drop(writer), then the task starts its normal sleep
DropWriter(c) ==
    /\ task_pc[c] = "drop"
    /\ write_locked' = [write_locked EXCEPT ![c] = FALSE]
    /\ task_pc' = [task_pc EXCEPT ![c] = "sleep"]
    /\ wake_at' = [wake_at EXCEPT ![c] = now + UpdateInterval(c)]
    /\ published' = [published EXCEPT ![c] =
                        [item |-> item[c], last_updated_at |-> last_updated_at[c]]]
    /\ UNCHANGED <<stats_enabled, responsive, started, fetch_result, fetched, item,
                   last_updated_at, read_holders, now, ticks, readerVars, ledgerVars, utilVars>>

\* the normal sleep is over: next cycle
WakeUp(c) ==
    /\ task_pc[c] = "sleep"
    /\ now >= wake_at[c]
    /\ task_pc' = [task_pc EXCEPT ![c] = "fetch"]
    /\ UNCHANGED <<taskFrame, fetch_result, fetched, wake_at>>

(***************************************************************************)
(* The clock.  A sleep lasts at least its duration: time advances to the   *)
(* deadline of some sleeping task.                                         *)
(***************************************************************************)
Sleeping(c) == task_pc[c] \in {"sleep", "retry_sleep"}

Tick ==
    /\ ticks < MaxTicks
    /\ \E c \in Caches :
          /\ Sleeping(c)
          /\ wake_at[c] > now
          /\ now' = wake_at[c]
    /\ ticks' = ticks + 1
    /\ UNCHANGED <<stats_enabled, responsive, started, task_pc, fetch_result, fetched, item,
                   last_updated_at, published, write_locked, read_holders, wake_at, readerVars, ledgerVars, utilVars>>

(***************************************************************************)
(* A reader of a cache (a request handler): takes the read lock, copies    *)
(* item and last_updated_at, releases the lock.                            *)
(***************************************************************************)
ReadLock(r, c) ==
    /\ reader_pc[r] = "idle"
    /\ ~write_locked[c]
    /\ read_holders' = [read_holders EXCEPT ![c] = @ \cup {r}]
    /\ reader_cache' = [reader_cache EXCEPT ![r] = c]
    /\ reader_pc' = [reader_pc EXCEPT ![r] = "read_item"]
    /\ observed' = [observed EXCEPT ![r] = [item |-> NoValue, last_updated_at |-> 0]]
    /\ UNCHANGED <<stats_enabled, responsive, started, task_pc, fetch_result, fetched, item,
                   last_updated_at, published, write_locked, wake_at, now, ticks, ledgerVars, utilVars>>

ReadItem(r) ==
    /\ reader_pc[r] = "read_item"
    /\ observed' = [observed EXCEPT ![r].item = item[reader_cache[r]]]
    /\ reader_pc' = [reader_pc EXCEPT ![r] = "read_last_updated_at"]
    /\ UNCHANGED <<cacheVars, reader_cache, ledgerVars, utilVars>>

ReadLastUpdatedAt(r) ==
    /\ reader_pc[r] = "read_last_updated_at"
    /\ observed' = [observed EXCEPT ![r].last_updated_at = last_updated_at[reader_cache[r]]]
    /\ reader_pc' = [reader_pc EXCEPT ![r] = "read_done"]
    /\ UNCHANGED <<cacheVars, reader_cache, ledgerVars, utilVars>>

ReadUnlock(r) ==
    /\ reader_pc[r] = "read_done"
    /\ read_holders' = [read_holders EXCEPT ![reader_cache[r]] = @ \ {r}]
    /\ reader_pc' = [reader_pc EXCEPT ![r] = "idle"]
    /\ UNCHANGED <<stats_enabled, responsive, started, task_pc, fetch_result, fetched, item,
                   last_updated_at, published, write_locked, wake_at, now, ticks,
                   reader_cache, observed, ledgerVars, utilVars>>

(***************************************************************************)
(* The ledger (app_database.rs).                                           *)
(*                                                                         *)
(* A table is a sequence of rows; a row's position is its id.  Balances    *)
(* are BIGINT UNSIGNED columns bound as Unsigned<BigInt> (u64); the model  *)
(* scales the unsigned range down to 0..MaxU64.                            *)
(***************************************************************************)
\* SQL NULL, and the failure of an integer expression (values outside 0..MaxU64)
NULL == 0 - 1
OutOfRange == 0 - 2

\* MySQL evaluates unsigned integer expressions exactly and rejects a result
\* outside the column's range (error 1690); NULL operands give NULL
U64AddWrapping(a, b) ==
    IF a = NULL \/ b = NULL THEN NULL ELSE (a + b) % (MaxU64 + 1)

U64Add(a, b) ==
    IF a = NULL \/ b = NULL THEN NULL
    ELSE IF a + b > MaxU64 THEN OutOfRange ELSE a + b

U64SubWrapping(a, b) ==
    IF a = NULL \/ b = NULL THEN NULL ELSE (a - b + MaxU64 + 1) % (MaxU64 + 1)

U64Sub(a, b) ==
    IF a = NULL \/ b = NULL THEN NULL
    ELSE IF a < b THEN OutOfRange ELSE a - b

\* a statement's result: the outcome of execute(conn), the number of rows
\* affected and the table afterwards (a rejected statement changes nothing)
\* (a rejected statement reported like one that matched no row)
RejectedAsNoRowMatched(table) == [outcome |-> "Ok", affected |-> 0, table |-> table]

Executed(n, table) == [outcome |-> "Ok", affected |-> n, table |-> table]
Rejected(table) == [outcome |-> "Err", affected |-> 0, table |-> table]

Matching(table, Where(_)) == {i \in DOMAIN table : Where(table[i])}

(***************************************************************************)
(* update_rewards (app_database.rs:96-145):                                *)
(*   UPDATE rewards SET balance = balance + CASE miner_id                  *)
(*     WHEN k1 THEN d1 WHEN k2 THEN d2 ... END WHERE miner_id IN (k1, ...) *)
(***************************************************************************)
\* (a CASE that gives every row the value of its first WHEN)
RewardsCaseFirstPair(rewards, miner_id) == rewards[1].balance

\* (a CASE in which the last WHEN that names the id wins)
RewardsCaseLastPair(rewards, miner_id) ==
    LET hits == {i \in DOMAIN rewards : rewards[i].miner_id = miner_id}
    IN  IF hits = {} THEN NULL
        ELSE rewards[CHOOSE i \in hits : \A j \in hits : j <= i].balance

\* CASE miner_id WHEN .. THEN .. END: the value of the first WHEN that names
\* the id, NULL when none does
RewardsCase(rewards, miner_id) ==
    LET hits == {i \in DOMAIN rewards : rewards[i].miner_id = miner_id}
    IN  IF hits = {} THEN NULL
        ELSE rewards[CHOOSE i \in hits : \A j \in hits : i <= j].balance

\* (a statement without its WHERE clause touches every row)
RewardsWhereEveryRow(rewards, row) == TRUE

\* WHERE miner_id IN (k1, k2, ...)
RewardsWhere(rewards, row) ==
    \E i \in DOMAIN rewards : rewards[i].miner_id = row.miner_id

\* (a statement applied row by row that stops at the first rejected row and
\* keeps the rows already written)
UpdateRewardsRowByRow(table, rewards) ==
    LET hit == Matching(table, LAMBDA row : RewardsWhere(rewards, row))
        new(i) == U64Add(table[i].balance, RewardsCase(rewards, table[i].miner_id))
        bad == {i \in hit : new(i) = OutOfRange}
        stop == IF bad = {} THEN Len(table) + 1 ELSE CHOOSE i \in bad : \A j \in bad : i <= j
        written == [i \in DOMAIN table |->
                      IF i \in hit /\ i < stop THEN [table[i] EXCEPT !.balance = new(i)]
                      ELSE table[i]]
    IN  IF rewards = <<>> THEN Rejected(table)
        ELSE IF bad # {} THEN Rejected(written)
        ELSE Executed(Cardinality(hit), written)

\* the statement on `table`: a NULL from the CASE is written as it is (the
\* columns' definitions are not part of this source); an empty list gives "CASE miner_id  END WHERE
\* miner_id IN ()", which MySQL rejects; a row whose new balance is out of
\* range makes the whole statement fail
UpdateRewardsStatement(table, rewards) ==
    LET hit == Matching(table, LAMBDA row : RewardsWhere(rewards, row))
        new(i) == U64Add(table[i].balance, RewardsCase(rewards, table[i].miner_id))
    IN  IF rewards = <<>> THEN Rejected(table)
        ELSE IF \E i \in hit : new(i) = OutOfRange THEN Rejected(table)
        ELSE Executed(Cardinality(hit),
                      [i \in DOMAIN table |->
                         IF i \in hit THEN [table[i] EXCEPT !.balance = new(i)]
                         ELSE table[i]])

(***************************************************************************)
(* decrease_miner_reward (app_database.rs:147-180):                        *)
(*   UPDATE rewards SET balance = balance - ? WHERE miner_id = ?           *)
(***************************************************************************)
DecreaseMinerRewardStatement(table, miner_id, rewards_to_decrease) ==
    LET hit == Matching(table, LAMBDA row : row.miner_id = miner_id)
        new(i) == U64Sub(table[i].balance, rewards_to_decrease)
    IN  IF \E i \in hit : new(i) = OutOfRange THEN Rejected(table)
        ELSE Executed(Cardinality(hit),
                      [i \in DOMAIN table |->
                         IF i \in hit THEN [table[i] EXCEPT !.balance = new(i)]
                         ELSE table[i]])

(***************************************************************************)
(* update_stake_accounts_staked_balance (app_database.rs:870-919):         *)
(*   UPDATE stake_accounts SET staked_balance = CASE                       *)
(*     WHEN stake_pda = 'k1' THEN v1 ... END WHERE stake_pda IN ('k1', ..) *)
(***************************************************************************)
StakedCase(stake_accts, stake_pda) ==
    LET hits == {i \in DOMAIN stake_accts : stake_accts[i].stake_pda = stake_pda}
    IN  IF hits = {} THEN NULL
        ELSE stake_accts[CHOOSE i \in hits : \A j \in hits : i <= j].staked_balance

StakeWhere(stake_accts, row) ==
    \E i \in DOMAIN stake_accts : stake_accts[i].stake_pda = row.stake_pda

\* (the same statement written as an increment)
UpdateStakedBalanceAdding(table, stake_accts) ==
    LET hit == Matching(table, LAMBDA row : StakeWhere(stake_accts, row))
        new(i) == table[i].staked_balance + StakedCase(stake_accts, table[i].stake_pda)
    IN  IF stake_accts = <<>> THEN Rejected(table)
        ELSE Executed(Cardinality(hit),
                      [i \in DOMAIN table |->
                         IF i \in hit THEN [table[i] EXCEPT !.staked_balance = new(i)]
                         ELSE table[i]])

UpdateStakedBalanceStatement(table, stake_accts) ==
    LET hit == Matching(table, LAMBDA row : StakeWhere(stake_accts, row))
        new(i) == StakedCase(stake_accts, table[i].stake_pda)
    IN  IF stake_accts = <<>> THEN Rejected(table)
        ELSE Executed(Cardinality(hit),
                      [i \in DOMAIN table |->
                         IF i \in hit THEN [table[i] EXCEPT !.staked_balance = new(i)]
                         ELSE table[i]])

(***************************************************************************)
(* update_stake_accounts_rewards (app_database.rs:921-976):                *)
(*   UPDATE stake_accounts SET                                             *)
(*     rewards_balance = CASE WHEN stake_pda = 'k1'                        *)
(*                            THEN rewards_balance + d1 ... END,           *)
(*     total_rewards_earned = CASE WHEN stake_pda = 'k1'                   *)
(*                            THEN total_rewards_earned + d1 ... END       *)
(*   WHERE stake_pda IN ('k1', ...)                                        *)
(***************************************************************************)
\* (a statement that sets both columns to the listed value instead of adding it)
UpdateStakeRewardsOverwriting(table, stake_accts) ==
    LET hit == Matching(table, LAMBDA row : StakeWhere(stake_accts, row))
        value(i) == CHOOSE v \in {stake_accts[k].rewards_balance : k \in DOMAIN stake_accts} :
                       \E k \in DOMAIN stake_accts :
                          /\ stake_accts[k].stake_pda = table[i].stake_pda
                          /\ stake_accts[k].rewards_balance = v
    IN  IF stake_accts = <<>> THEN Rejected(table)
        ELSE Executed(Cardinality(hit),
                      [i \in DOMAIN table |->
                         IF i \in hit
                         THEN [table[i] EXCEPT !.rewards_balance = value(i),
                                               !.total_rewards_earned = value(i)]
                         ELSE table[i]])

StakeRewardsCase(stake_accts, stake_pda) ==
    LET hits == {i \in DOMAIN stake_accts : stake_accts[i].stake_pda = stake_pda}
    IN  IF hits = {} THEN NULL
        ELSE stake_accts[CHOOSE i \in hits : \A j \in hits : i <= j].rewards_balance

UpdateStakeRewardsStatement(table, stake_accts) ==
    LET hit == Matching(table, LAMBDA row : StakeWhere(stake_accts, row))
        delta(i) == StakeRewardsCase(stake_accts, table[i].stake_pda)
        new_balance(i) == U64Add(table[i].rewards_balance, delta(i))
        new_total(i) == U64Add(table[i].total_rewards_earned, delta(i))
    IN  IF stake_accts = <<>> THEN Rejected(table)
        ELSE IF \E i \in hit : OutOfRange \in {new_balance(i), new_total(i)}
        THEN Rejected(table)
        ELSE Executed(Cardinality(hit),
                      [i \in DOMAIN table |->
                         IF i \in hit
                         THEN [table[i] EXCEPT !.rewards_balance = new_balance(i),
                                               !.total_rewards_earned = new_total(i)]
                         ELSE table[i]])

\* (a decrease that also lowers the lifetime counter)
DecreaseStakersRewardsAndTotal(table, staker_id, rewards_to_decrease) ==
    LET hit == {i \in DOMAIN table : i = staker_id}
        new(i) == U64Sub(table[i].rewards_balance, rewards_to_decrease)
    IN  IF \E i \in hit : new(i) = OutOfRange THEN Rejected(table)
        ELSE Executed(Cardinality(hit),
                      [i \in DOMAIN table |->
                         IF i \in hit
                         THEN [table[i] EXCEPT !.rewards_balance = new(i),
                                               !.total_rewards_earned =
                                                   @ - rewards_to_decrease]
                         ELSE table[i]])

(***************************************************************************)
(* decrease_stakers_rewards (app_database.rs:1083-1116):                   *)
(*   UPDATE stake_accounts SET rewards_balance = rewards_balance - ?       *)
(*   WHERE id = ?                                                          *)
(***************************************************************************)
DecreaseStakersRewardsStatement(table, staker_id, rewards_to_decrease) ==
    LET hit == {i \in DOMAIN table : i = staker_id}
        new(i) == U64Sub(table[i].rewards_balance, rewards_to_decrease)
    IN  IF \E i \in hit : new(i) = OutOfRange THEN Rejected(table)
        ELSE Executed(Cardinality(hit),
                      [i \in DOMAIN table |->
                         IF i \in hit THEN [table[i] EXCEPT !.rewards_balance = new(i)]
                         ELSE table[i]])

(***************************************************************************)
(* update_challenge_rewards (app_database.rs:214-251):                     *)
(*   UPDATE challenges SET rewards_earned = ?, submission_id = ?           *)
(*   WHERE challenge = ?                                                   *)
(* The number of rows affected is the number of rows matched (diesel       *)
(* connects with CLIENT_FOUND_ROWS).                                       *)
(***************************************************************************)
UpdateChallengeRewardsStatement(table, challenge, submission_id, rewards) ==
    LET hit == Matching(table, LAMBDA row : row.challenge = challenge)
    IN  Executed(Cardinality(hit),
                 [i \in DOMAIN table |->
                    IF i \in hit
                    THEN [table[i] EXCEPT !.rewards_earned = rewards,
                                          !.submission_id = submission_id]
                    ELSE table[i]])

\* INSERT INTO challenges (pool_id, challenge, rewards_earned) VALUES (?, ?, ?):
\* one row is appended, submission_id is NULL
AddNewChallengeStatement(table, pool_id, challenge, rewards_earned) ==
    Executed(1, Append(table, [challenge |-> challenge, pool_id |-> pool_id,
                               submission_id |-> NULL, rewards_earned |-> rewards_earned]))

\* INSERT INTO pools (authority_pubkey, proof_pubkey) VALUES (?, ?): one row is
\* appended, its counters start at 0
AddNewPoolStatement(table, authority_pubkey, proof_pubkey) ==
    Executed(1, Append(table, [authority_pubkey |-> authority_pubkey,
                               proof_pubkey |-> proof_pubkey,
                               total_rewards |-> 0, claimed_rewards |-> 0]))

\* UPDATE pools SET total_rewards = total_rewards + ? WHERE authority_pubkey = ?
UpdatePoolRewardsStatement(table, pool_authority_pubkey, earned_rewards) ==
    LET hit == Matching(table, LAMBDA row : row.authority_pubkey = pool_authority_pubkey)
    IN  IF \E i \in hit : U64Add(table[i].total_rewards, earned_rewards) = OutOfRange
        THEN Rejected(table)
        ELSE Executed(Cardinality(hit),
                      [i \in DOMAIN table |->
                         IF i \in hit
                         THEN [table[i] EXCEPT !.total_rewards = U64Add(@, earned_rewards)]
                         ELSE table[i]])

\* (UPDATE pools SET claimed_rewards = ? WHERE authority_pubkey = ?)
UpdatePoolClaimedOverwriting(table, pool_authority_pubkey, claimed_rewards) ==
    LET hit == Matching(table, LAMBDA row : row.authority_pubkey = pool_authority_pubkey)
    IN  Executed(Cardinality(hit),
                 [i \in DOMAIN table |->
                    IF i \in hit
                    THEN [table[i] EXCEPT !.claimed_rewards = claimed_rewards]
                    ELSE table[i]])

\* UPDATE pools SET claimed_rewards = claimed_rewards + ? WHERE authority_pubkey = ?
UpdatePoolClaimedStatement(table, pool_authority_pubkey, claimed_rewards) ==
    LET hit == Matching(table, LAMBDA row : row.authority_pubkey = pool_authority_pubkey)
    IN  IF \E i \in hit : U64Add(table[i].claimed_rewards, claimed_rewards) = OutOfRange
        THEN Rejected(table)
        ELSE Executed(Cardinality(hit),
                      [i \in DOMAIN table |->
                         IF i \in hit
                         THEN [table[i] EXCEPT !.claimed_rewards = U64Add(@, claimed_rewards)]
                         ELSE table[i]])

\* txns.signature is a unique key: a row of that signature is stored
SignatureStored(table, signature) ==
    \E i \in DOMAIN table : table[i].signature = signature

\* (INSERT IGNORE: a duplicate is skipped and the statement succeeds)
AddNewTxnIgnoringDuplicate(table, txn) ==
    IF SignatureStored(table, txn.signature)
    THEN Executed(0, table)
    ELSE Executed(1, Append(table, txn))

\* INSERT INTO txns (txn_type, signature, priority_fee) VALUES (?, ?, ?):
\* a duplicate key is an error (1062) and nothing is inserted
AddNewTxnStatement(table, txn) ==
    IF SignatureStored(table, txn.signature)
    THEN Rejected(table)
    ELSE Executed(1, Append(table, txn))

\* SELECT id FROM txns WHERE signature = ? with get_result: no row is an error
GetTxnBySigStatement(table, sig) ==
    LET hit == Matching(table, LAMBDA row : row.signature = sig)
    IN  IF hit = {} THEN Rejected(table) ELSE Executed(Cardinality(hit), table)

(***************************************************************************)
(* add_new_stake_accounts_batch (app_database.rs:832-868):                 *)
(*   insert_into(stake_accounts).values(&new_stake_accounts)               *)
(*     .on_conflict_do_nothing()                                           *)
(* which is INSERT IGNORE on MySQL: an entry that conflicts with a unique  *)
(* key, of a stored row or of an entry inserted before it, is skipped; the *)
(* statement affects the rows it inserted.                                 *)
(***************************************************************************)
\* the unique key of stake_accounts
StakeAccountKey(row) == <<row.pool_id, row.staker_pubkey, row.mint_pubkey>>

KeyConflict(table, entry) ==
    \E i \in DOMAIN table : StakeAccountKey(table[i]) = StakeAccountKey(entry)

NewStakeAccountRow(entry) ==
    [stake_pda |-> entry.stake_pda, pool_id |-> entry.pool_id,
     staked_balance |-> entry.staked_balance, rewards_balance |-> 0,
     total_rewards_earned |-> 0,
     staker_pubkey |-> entry.staker_pubkey, mint_pubkey |-> entry.mint_pubkey]

RECURSIVE InsertIgnore(_, _)
InsertIgnore(table, entries) ==
    IF entries = <<>> THEN table
    ELSE InsertIgnore(IF KeyConflict(table, Head(entries)) THEN table
                      ELSE Append(table, NewStakeAccountRow(Head(entries))),
                      Tail(entries))

\* (the same insert without on_conflict_do_nothing: a conflict rejects it)
AddNewStakeAccountsWithoutIgnore(table, new_stake_accounts) ==
    LET inserted == InsertIgnore(table, new_stake_accounts)
    IN  IF Len(inserted) - Len(table) < Len(new_stake_accounts) THEN Rejected(table)
        ELSE Executed(Len(inserted) - Len(table), inserted)

AddNewStakeAccountsBatchStatement(table, new_stake_accounts) ==
    LET inserted == InsertIgnore(table, new_stake_accounts)
    IN  Executed(Len(inserted) - Len(table), inserted)

(***************************************************************************)
(* add_new_submissions_batch (app_database.rs:631-666):                    *)
(*   insert_into(submissions_2).values(&submissions)                       *)
(* The rows get the next ids in the order of the list; an empty list       *)
(* affects no row.  Of the columns only id and nonce are modelled.         *)
(***************************************************************************)
AddNewSubmissionsBatchStatement(table, submissions) ==
    Executed(Len(submissions),
             table \o [k \in DOMAIN submissions |->
                         [id |-> Len(table) + k, nonce |-> submissions[k].nonce]])

(***************************************************************************)
(* get_submission_id_with_nonce (app_database.rs:182-212):                 *)
(*   SELECT id FROM submissions_2 WHERE submissions_2.nonce = ?            *)
(*     ORDER BY id DESC                                                    *)
(* with get_result, which takes the first row of the result and fails      *)
(* when there is none.                                                     *)
(***************************************************************************)
RECURSIVE OrderByIdAsc(_)
RECURSIVE OrderByIdDesc(_)

\* (the rows in ascending order of id)
OrderByIdAsc(rows) ==
    IF rows = {} THEN <<>>
    ELSE LET low == CHOOSE r \in rows : \A q \in rows : r.id <= q.id
         IN  <<low>> \o OrderByIdAsc(rows \ {low})

OrderByIdDesc(rows) ==
    IF rows = {} THEN <<>>
    ELSE LET top == CHOOSE r \in rows : \A q \in rows : q.id <= r.id
         IN  <<top>> \o OrderByIdDesc(rows \ {top})

SubmissionsWithNonce(table, nonce) ==
    OrderByIdDesc({table[i] : i \in Matching(table, LAMBDA row : row.nonce = nonce)})

GetSubmissionIdStatement(table, nonce) ==
    LET result == SubmissionsWithNonce(table, nonce)
    IN  IF result = <<>> THEN Rejected(table) ELSE Executed(Len(result), table)

\* Ok(query.id as i64): the id of the first row of the result
GetResult(op, args, table) ==
    IF op = "get_submission_id_with_nonce"
    THEN Head(SubmissionsWithNonce(table, args.nonce)).id
    ELSE NULL

\* INSERT INTO claims (miner_id, pool_id, txn_id, amount) VALUES (?, ?, ?, ?)
AddNewClaimStatement(table, claim_row) ==
    Executed(1, Append(table, claim_row))

(***************************************************************************)
(* signup_user_transaction (app_database.rs:668-723), inside               *)
(* conn.transaction(|conn| { .. }):                                        *)
(*   INSERT INTO miners (pubkey, enabled) VALUES (?, true)                 *)
(*   SELECT id, pubkey, enabled FROM miners WHERE miners.pubkey = ?        *)
(*   SELECT id, .. FROM pools WHERE pools.authority_pubkey = ?             *)
(*   INSERT INTO rewards (miner_id, pool_id) VALUES (?, ?)                 *)
(* Each of the first three ends the closure on an error (`?`); the         *)
(* transaction commits when the closure returns Ok and rolls back when it  *)
(* returns Err.  A transaction's result holds all tables.                  *)
(***************************************************************************)
Committed(n, tables) == [outcome |-> "Ok", affected |-> n, tables |-> tables]
RolledBack(tables) == [outcome |-> "Err", affected |-> 0, tables |-> tables]

\* miners.pubkey is a unique key: a row of that pubkey is stored
PubkeyStored(table, pubkey) ==
    \E i \in DOMAIN table : table[i].pubkey = pubkey

\* (the INSERT on a table without the unique key)
InsertMinerWithoutUniqueKey(table, pubkey, enabled) ==
    Executed(1, Append(table, [pubkey |-> pubkey, enabled |-> enabled]))

\* INSERT INTO miners (pubkey, enabled) VALUES (?, ?)
InsertMinerStatement(table, pubkey, enabled) ==
    IF PubkeyStored(table, pubkey)
    THEN Rejected(table)
    ELSE Executed(1, Append(table, [pubkey |-> pubkey, enabled |-> enabled]))

\* get_result: the first row of the answer (the row of lowest id here)
FirstId(hit) == CHOOSE i \in hit : \A j \in hit : i <= j

\* INSERT INTO rewards (miner_id, pool_id) VALUES (?, ?): the balance starts at 0
InsertRewardStatement(table, miner_id, pool_id) ==
    Executed(1, Append(table, [miner_id |-> miner_id, pool_id |-> pool_id, balance |-> 0]))

\* (the four statements on a connection in autocommit mode)
SignupWithoutTransaction(tables, user_pubkey, pool_authority_pubkey) ==
    LET inserted == InsertMinerStatement(tables.miners, user_pubkey, TRUE)
        miners == Matching(inserted.table, LAMBDA row : row.pubkey = user_pubkey)
        pools == Matching(tables.pools, LAMBDA row : row.authority_pubkey = pool_authority_pubkey)
        reward == InsertRewardStatement(tables.rewards, FirstId(miners), FirstId(pools))
    IN  IF inserted.outcome = "Err" THEN RolledBack(tables)
        ELSE IF pools = {} THEN RolledBack([tables EXCEPT !.miners = inserted.table])
        ELSE Committed(reward.affected,
                       [tables EXCEPT !.miners = inserted.table, !.rewards = reward.table])

\* (a transaction that commits after the miner row, without a reward row)
SignupWithoutRewardRow(tables, user_pubkey, pool_authority_pubkey) ==
    LET inserted == InsertMinerStatement(tables.miners, user_pubkey, TRUE)
    IN  IF inserted.outcome = "Err" THEN RolledBack(tables)
        ELSE Committed(inserted.affected, [tables EXCEPT !.miners = inserted.table])

SignupUserTransaction(tables, user_pubkey, pool_authority_pubkey) ==
    LET inserted == InsertMinerStatement(tables.miners, user_pubkey, TRUE)
        miners == Matching(inserted.table, LAMBDA row : row.pubkey = user_pubkey)
        pools == Matching(tables.pools, LAMBDA row : row.authority_pubkey = pool_authority_pubkey)
        reward == InsertRewardStatement(tables.rewards, FirstId(miners), FirstId(pools))
    IN  IF inserted.outcome = "Err" THEN RolledBack(tables)
        ELSE IF miners = {} \/ pools = {} THEN RolledBack(tables)
        ELSE IF reward.outcome = "Err" THEN RolledBack(tables)
        ELSE Committed(reward.affected,
                       [tables EXCEPT !.miners = inserted.table, !.rewards = reward.table])

(***************************************************************************)
(* The tables and the calls.                                               *)
(***************************************************************************)
Callers == {"c1", "c2"}

\* miners 1 and 2 have signed up (one rewards row each, balance 0); miner 3
\* has no rewards row
MinerIdInputs == {1, 2, 3}
\* stake accounts pdaA (new) and pdaB (staked 1, earned 2, claimed 1) exist;
\* pdaX does not
StakePdaInputs == {"pdaA", "pdaB", "pdaX"}
\* challenges chA and chB have been added; chX has not
ChallengeInputs == {"chA", "chB", "chX"}
\* wallets: m1 has signed up; m3 and m4 have not
UserPubkeyInputs == {"m1", "m3", "m4"}
\* signatures of chain transactions
SignatureInputs == {"sigA", "sigB"}
\* the pool of authority authA has been added; authB and authX have not
PoolAuthorityInputs == {"authA", "authB", "authX"}

InitialTables ==
    [rewards |-> <<[miner_id |-> 1, pool_id |-> 1, balance |-> 0],
                   [miner_id |-> 2, pool_id |-> 1, balance |-> 0]>>,
     stake_accounts |->
        <<[stake_pda |-> "pdaA", pool_id |-> 1, staked_balance |-> 0,
           rewards_balance |-> 0, total_rewards_earned |-> 0,
           staker_pubkey |-> "s1", mint_pubkey |-> "mintA"],
          [stake_pda |-> "pdaB", pool_id |-> 1, staked_balance |-> 1,
           rewards_balance |-> 1, total_rewards_earned |-> 2,
           staker_pubkey |-> "s2", mint_pubkey |-> "mintA"]>>,
     challenges |->
        <<[challenge |-> "chA", pool_id |-> 1, submission_id |-> NULL, rewards_earned |-> NULL],
          [challenge |-> "chB", pool_id |-> 1, submission_id |-> NULL, rewards_earned |-> NULL]>>,
     pools |->
        <<[authority_pubkey |-> "authA", proof_pubkey |-> "proofA",
           total_rewards |-> 0, claimed_rewards |-> 0]>>,
     txns |-> <<>>,
     claims |-> <<>>,
     miners |-> <<[pubkey |-> "m1", enabled |-> TRUE], [pubkey |-> "m2", enabled |-> TRUE]>>,
     submissions |-> <<>>]

\* the lists a caller submits: empty, one pair, two pairs
BatchLists(Pairs) ==
    {<<>>} \cup {<<a>> : a \in Pairs} \cup {<<a, b>> : a \in Pairs, b \in Pairs}

UpdateRewardPairs == [miner_id : MinerIdInputs, balance : 1..MaxDelta]
\* miner 1 has signed up; the first wallet to sign up becomes miner 3; there
\* is no miner 5
SignedUpMinerIds == {1, 3, 5}
SignedUpRewardPairs == [miner_id : SignedUpMinerIds, balance : {1, MaxDelta}]
UpdateStakeAccountPairs == [stake_pda : StakePdaInputs, staked_balance : 0..MaxDelta]
\* stakes to add: that of staker s1 in mintA is stored already
InsertStakeAccounts ==
    {[pool_id |-> 1, staker_pubkey |-> "s1", mint_pubkey |-> "mintA", stake_pda |-> "pdaA",
      staked_balance |-> 2],
     [pool_id |-> 1, staker_pubkey |-> "s1", mint_pubkey |-> "mintB", stake_pda |-> "pdaC",
      staked_balance |-> 2],
     [pool_id |-> 1, staker_pubkey |-> "s3", mint_pubkey |-> "mintA", stake_pda |-> "pdaD",
      staked_balance |-> 1],
     [pool_id |-> 1, staker_pubkey |-> "s3", mint_pubkey |-> "mintA", stake_pda |-> "pdaD",
      staked_balance |-> 2]}
UpdateStakeAccountRewardsPairs == [stake_pda : StakePdaInputs, rewards_balance : 1..MaxDelta]

NoCall == [op |-> "none", args |-> <<>>, res |-> "none", value |-> NULL]

NoAttempt == [res |-> "none", before |-> InitialTables]

NewCall(op, args) == [op |-> op, args |-> args, res |-> "pending", value |-> NULL]

\* claims: miner 1 claims an amount from the pool of authority authA (pool 1);
\* the chain transaction that paid it out has signature sigA
ClaimInputs == [miner_id : {1}, amount : 1..MaxDelta, signature : {"sigA"}]

NoClaim == [miner_id |-> 0, amount |-> 0, signature |-> "", done |-> {}, txn_id |-> NULL,
            start |-> InitialTables]

ClaimSteps == {"add_new_txn", "get_txn_by_sig", "decrease_miner_reward",
               "update_pool_claimed", "add_new_claim"}

\* the claim record needs the id of the txn row, which needs the txn row
ClaimStepReady(step, done) ==
    /\ step \notin done
    /\ step = "get_txn_by_sig" => "add_new_txn" \in done
    /\ step = "add_new_claim" => "get_txn_by_sig" \in done

\* the call a step of the claim makes
ClaimCallOf(step, cl) ==
    CASE step = "add_new_txn" ->
            NewCall(step, [txn_type |-> "claim", signature |-> cl.signature,
                           priority_fee |-> 0])
      [] step = "get_txn_by_sig" -> NewCall(step, [sig |-> cl.signature])
      [] step = "decrease_miner_reward" ->
            NewCall(step, [miner_id |-> cl.miner_id, rewards_to_decrease |-> cl.amount])
      [] step = "update_pool_claimed" ->
            NewCall(step, [pool_authority_pubkey |-> "authA", claimed_rewards |-> cl.amount])
      [] step = "add_new_claim" ->
            NewCall(step, [miner_id |-> cl.miner_id, pool_id |-> 1, txn_id |-> cl.txn_id,
                           amount |-> cl.amount])

\* the rewards a miner is credited with before it claims
CreditCalls ==
    {NewCall("update_rewards", <<a>>) : a \in [miner_id : {1}, balance : 1..MaxDelta]}

\* the calls of each workload: a behaviour exercises one family of operations
CallsOn(family) ==
    CASE family = "rewards" ->
            {NewCall("update_rewards", l) : l \in BatchLists(UpdateRewardPairs)}
            \cup {NewCall("decrease_miner_reward", a) :
                    a \in [miner_id : MinerIdInputs, rewards_to_decrease : 1..MaxDelta]}
      [] family = "staked_balance" ->
            {NewCall("update_stake_accounts_staked_balance", l) :
                    l \in BatchLists(UpdateStakeAccountPairs)}
      [] family = "stake_rewards" ->
            {NewCall("update_stake_accounts_rewards", l) :
                    l \in BatchLists(UpdateStakeAccountRewardsPairs)}
            \cup {NewCall("decrease_stakers_rewards", a) :
                    a \in [staker_id : 1..3, rewards_to_decrease : 1..MaxDelta]}
      [] family = "challenges" ->
            {NewCall("update_challenge_rewards", a) :
                    a \in [challenge : ChallengeInputs, submission_id : 1..2,
                           rewards : 0..MaxDelta]}
      [] family = "new_challenges" ->
            {NewCall("add_new_challenge", a) :
                    a \in [pool_id : {1}, challenge : {"chA", "chX"}, rewards_earned : {NULL}]}
            \cup {NewCall("update_challenge_rewards", a) :
                    a \in [challenge : ChallengeInputs, submission_id : {1}, rewards : {1}]}
      [] family = "challenge_rows" ->
            {NewCall("add_new_challenge", a) :
                    a \in [pool_id : {1}, challenge : {"chA", "chX"},
                           rewards_earned : {NULL} \cup 0..MaxDelta]}
            \cup {NewCall("update_challenge_rewards", a) :
                    a \in [challenge : ChallengeInputs, submission_id : 1..2,
                           rewards : 0..MaxDelta]}
      [] family = "pools" ->
            {NewCall("add_new_pool", a) :
                    a \in [authority_pubkey : {"authB"}, proof_pubkey : {"proofB"}]}
            \cup {NewCall("update_pool_rewards", a) :
                    a \in [pool_authority_pubkey : {"authA", "authB"},
                           earned_rewards : 1..MaxDelta]}
            \cup {NewCall("update_pool_claimed", a) :
                    a \in [pool_authority_pubkey : {"authA", "authB"},
                           claimed_rewards : 1..MaxDelta]}
      [] family = "new_stake_accounts" ->
            {NewCall("add_new_stake_accounts_batch", l) : l \in BatchLists(InsertStakeAccounts)}
      [] family = "submissions" ->
            {NewCall("add_new_submissions_batch", l) : l \in BatchLists([nonce : 1..NumNonces])}
            \cup {NewCall("get_submission_id_with_nonce", a) : a \in [nonce : 1..(NumNonces + 1)]}
      [] family = "claim" ->
            CreditCalls
            \cup {ClaimCallOf(step, [NoClaim EXCEPT !.miner_id = i.miner_id,
                                                    !.amount = i.amount,
                                                    !.signature = i.signature,
                                                    !.txn_id = id]) :
                     step \in ClaimSteps, i \in ClaimInputs,
                     id \in 1..Cardinality(SignatureInputs)}
      [] family = "signup" ->
            {NewCall("signup_user_transaction", a) :
                    a \in [user_pubkey : UserPubkeyInputs,
                           pool_authority_pubkey : {"authA", "authX"}]}
      [] family = "signup_rewards" ->
            {NewCall("signup_user_transaction", a) :
                    a \in [user_pubkey : UserPubkeyInputs,
                           pool_authority_pubkey : {"authA", "authX"}]}
            \cup {NewCall("update_rewards", l) : l \in BatchLists(SignedUpRewardPairs)}
            \cup {NewCall("decrease_miner_reward", a) :
                    a \in [miner_id : SignedUpMinerIds, rewards_to_decrease : 1..MaxDelta]}
      [] family = "txns" ->
            {NewCall("add_new_txn", a) :
                    a \in [txn_type : {"claim"}, signature : SignatureInputs,
                           priority_fee : 0..1]}
      [] family = "pool_rewards" ->
            {NewCall("add_new_pool", a) :
                    a \in [authority_pubkey : {"authA", "authB"}, proof_pubkey : {"proofB"}]}
            \cup {NewCall("update_pool_rewards", a) :
                    a \in [pool_authority_pubkey : PoolAuthorityInputs,
                           earned_rewards : 1..MaxDelta]}
      [] family = "pool_claimed" ->
            {NewCall("add_new_pool", a) :
                    a \in [authority_pubkey : {"authA", "authB"}, proof_pubkey : {"proofB"}]}
            \cup {NewCall("update_pool_claimed", a) :
                    a \in [pool_authority_pubkey : PoolAuthorityInputs,
                           claimed_rewards : 1..MaxDelta]}

OpTable(op) ==
    CASE op \in {"update_rewards", "decrease_miner_reward"} -> "rewards"
      [] op \in {"update_stake_accounts_staked_balance", "update_stake_accounts_rewards",
                 "decrease_stakers_rewards", "add_new_stake_accounts_batch"} -> "stake_accounts"
      [] op \in {"update_challenge_rewards", "add_new_challenge"} -> "challenges"
      [] op \in {"add_new_pool", "update_pool_rewards", "update_pool_claimed"} -> "pools"
      [] op \in {"add_new_txn", "get_txn_by_sig"} -> "txns"
      [] op \in {"add_new_submissions_batch", "get_submission_id_with_nonce"} -> "submissions"
      [] op = "add_new_claim" -> "claims"

\* the statement of a call, on the table it names
Statement(op, args, table) ==
    CASE op = "update_rewards" -> UpdateRewardsStatement(table, args)
      [] op = "decrease_miner_reward" ->
            DecreaseMinerRewardStatement(table, args.miner_id, args.rewards_to_decrease)
      [] op = "update_stake_accounts_staked_balance" -> UpdateStakedBalanceStatement(table, args)
      [] op = "update_stake_accounts_rewards" -> UpdateStakeRewardsStatement(table, args)
      [] op = "decrease_stakers_rewards" ->
            DecreaseStakersRewardsStatement(table, args.staker_id, args.rewards_to_decrease)
      [] op = "update_challenge_rewards" ->
            UpdateChallengeRewardsStatement(table, args.challenge, args.submission_id,
                                            args.rewards)
      [] op = "add_new_challenge" ->
            AddNewChallengeStatement(table, args.pool_id, args.challenge, args.rewards_earned)
      [] op = "add_new_txn" -> AddNewTxnStatement(table, args)
      [] op = "get_txn_by_sig" -> GetTxnBySigStatement(table, args.sig)
      [] op = "add_new_claim" -> AddNewClaimStatement(table, args)
      [] op = "add_new_pool" ->
            AddNewPoolStatement(table, args.authority_pubkey, args.proof_pubkey)
      [] op = "update_pool_rewards" ->
            UpdatePoolRewardsStatement(table, args.pool_authority_pubkey, args.earned_rewards)
      [] op = "update_pool_claimed" ->
            UpdatePoolClaimedStatement(table, args.pool_authority_pubkey, args.claimed_rewards)
      [] op = "add_new_submissions_batch" -> AddNewSubmissionsBatchStatement(table, args)
      [] op = "add_new_stake_accounts_batch" -> AddNewStakeAccountsBatchStatement(table, args)
      [] op = "get_submission_id_with_nonce" -> GetSubmissionIdStatement(table, args.nonce)

\* the calls that return an error unless the statement affected one row
RowCountUpdates == {"update_challenge_rewards", "update_pool_rewards", "update_pool_claimed"}
RowCountInserts == {"add_new_challenge", "add_new_pool"}
\* the calls that return an error when the statement affected no row (`query == 0`)
RowCountNonZero == {"signup_user_transaction", "add_new_submissions_batch",
                    "add_new_stake_accounts_batch"}

\* (a match that checks `query != 1` in the reward updates too)
ClassifyRewardUpdatesByRowCount(op, result) ==
    IF result.outcome = "Err" THEN "QueryFailed"
    ELSE IF op \in {"update_rewards", "decrease_miner_reward"} /\ result.affected # 1
    THEN "FailedToUpdateRow"
    ELSE "Ok"

\* (a match that takes every Ok(query) for success)
ClassifyIgnoringRowCount(op, result) ==
    IF result.outcome = "Err" THEN "QueryFailed" ELSE "Ok"

\* match res { Ok(interaction) => match interaction { Ok(query) => .., Err(e) => .. } }
\* with `if query != 1` in the calls that check the row count
Classify(op, result) ==
    IF result.outcome = "Err" THEN "QueryFailed"
    ELSE IF op \in RowCountUpdates /\ result.affected # 1 THEN "FailedToUpdateRow"
    ELSE IF op \in RowCountInserts /\ result.affected # 1 THEN "FailedToInsertRow"
    ELSE IF op \in RowCountNonZero /\ result.affected = 0 THEN "FailedToInsertRow"
    ELSE "Ok"

\* (a statement computed from the rows as they were when the call was issued)
RowsReadAtCall(p) == before[p]

\* the rows a statement reads: the table as it is when the statement executes
RowsRead(p) == db

\* what a call that returned Ok has added to the balance of rewards row i
AppliedDelta(c, table, i) ==
    CASE c.op = "update_rewards" ->
            IF RewardsWhere(c.args, table[i]) THEN RewardsCase(c.args, table[i].miner_id) ELSE 0
      [] c.op = "decrease_miner_reward" ->
            IF table[i].miner_id = c.args.miner_id THEN 0 - c.args.rewards_to_decrease ELSE 0
      [] OTHER -> 0

(***************************************************************************)
(* A call: issued, executed on a pooled connection, returned.              *)
(***************************************************************************)
Call(p, c) ==
    /\ ledger_pc[p] = "idle"
    /\ c \in CallsOn(workload)
    /\ call' = [call EXCEPT ![p] = c]
    /\ before' = [before EXCEPT ![p] = db]
    /\ ledger_pc' = [ledger_pc EXCEPT ![p] = "called"]
    /\ UNCHANGED <<workload, db, applied_net, first_attempt, cacheVars, readerVars, utilVars>>

\* (a call that reports FailedToGetConnectionFromPool after its statement ran)
FailToGetConnectionAfterStatement(p) ==
    /\ ledger_pc[p] = "called"
    /\ call[p].op # "signup_user_transaction"
    /\ db' = [db EXCEPT ![OpTable(call[p].op)] =
                 Statement(call[p].op, call[p].args, db[OpTable(call[p].op)]).table]
    /\ call' = [call EXCEPT ![p].res = "FailedToGetConnectionFromPool"]
    /\ ledger_pc' = [ledger_pc EXCEPT ![p] = "returned"]
    /\ UNCHANGED <<workload, before, applied_net, first_attempt, cacheVars, readerVars, utilVars>>

\* self.connection_pool.get().await fails
FailToGetConnection(p) ==
    /\ ledger_pc[p] = "called"
    /\ call' = [call EXCEPT ![p].res = "FailedToGetConnectionFromPool"]
    /\ ledger_pc' = [ledger_pc EXCEPT ![p] = "returned"]
    /\ UNCHANGED <<workload, db, before, applied_net, first_attempt, cacheVars, readerVars, utilVars>>

\* db_conn.interact(..).await fails: the closure has not run
FailToInteract(p) ==
    /\ ledger_pc[p] = "called"
    /\ call' = [call EXCEPT ![p].res = "InteractionFailed"]
    /\ ledger_pc' = [ledger_pc EXCEPT ![p] = "returned"]
    /\ UNCHANGED <<workload, db, before, applied_net, first_attempt, cacheVars, readerVars, utilVars>>

\* the closure runs the statement; the call returns the classified outcome
Execute(p) ==
    /\ ledger_pc[p] = "called"
    /\ call[p].op # "signup_user_transaction"
    /\ LET t == OpTable(call[p].op)
           result == Statement(call[p].op, call[p].args, RowsRead(p)[t])
           res == Classify(call[p].op, result)
       IN  /\ db' = [db EXCEPT ![t] = result.table]
           /\ call' = [call EXCEPT ![p].res = res,
                                    ![p].value = IF res = "Ok"
                                                 THEN GetResult(call[p].op, call[p].args,
                                                                RowsRead(p)[t])
                                                 ELSE NULL]
           /\ applied_net' =
                 IF res = "Ok" /\ t = "rewards"
                 THEN [i \in DOMAIN applied_net |->
                          applied_net[i] + AppliedDelta(call[p], db.rewards, i)]
                 ELSE applied_net
    /\ ledger_pc' = [ledger_pc EXCEPT ![p] = "returned"]
    /\ UNCHANGED <<workload, before, first_attempt, cacheVars, readerVars, utilVars>>

\* the closure runs the transaction of signup_user_transaction; the call
\* returns the classified outcome
ExecuteTransaction(p) ==
    /\ ledger_pc[p] = "called"
    /\ call[p].op = "signup_user_transaction"
    /\ LET result == SignupUserTransaction(RowsRead(p), call[p].args.user_pubkey,
                                           call[p].args.pool_authority_pubkey)
       IN  /\ db' = result.tables
           /\ call' = [call EXCEPT ![p].res = Classify(call[p].op, result)]
    /\ ledger_pc' = [ledger_pc EXCEPT ![p] = "returned"]
    /\ UNCHANGED <<workload, before, applied_net, first_attempt, cacheVars, readerVars, utilVars>>

(***************************************************************************)
(* signup_user_transaction statement by statement, for callers whose       *)
(* transactions overlap.  The INSERT into miners takes the lock of the     *)
(* pubkey in the unique index until the transaction ends: an INSERT of the *)
(* same pubkey by another transaction waits for it.                        *)
(***************************************************************************)
PubkeyLockedByOther(p) ==
    \E q \in Callers \ {p} :
       /\ tx[q] = "inserted"
       /\ call[q].args.user_pubkey = call[p].args.user_pubkey

\* conn.transaction begins and INSERT INTO miners executes; a duplicate pubkey
\* ends the transaction with the error
InsertMiner(p) ==
    /\ ledger_pc[p] = "called"
    /\ call[p].op = "signup_user_transaction"
    /\ tx[p] = "none"
    /\ ~PubkeyLockedByOther(p)
    /\ IF InsertMinerStatement(db.miners, call[p].args.user_pubkey, TRUE).outcome = "Err"
       THEN /\ call' = [call EXCEPT ![p].res = Classify(call[p].op, RolledBack(db))]
            /\ ledger_pc' = [ledger_pc EXCEPT ![p] = "returned"]
            /\ UNCHANGED tx
       ELSE /\ tx' = [tx EXCEPT ![p] = "inserted"]
            /\ UNCHANGED <<call, ledger_pc>>
    /\ UNCHANGED <<workload, db, before, applied_net, first_attempt, cacheVars, readerVars,
                   chainVars, scanVars, claimVars, cutoffVars>>

\* the INSERT waits for the lock until the wait times out
LockWaitTimeout(p) ==
    /\ ledger_pc[p] = "called"
    /\ call[p].op = "signup_user_transaction"
    /\ tx[p] = "none"
    /\ PubkeyLockedByOther(p)
    /\ call' = [call EXCEPT ![p].res = Classify(call[p].op, RolledBack(db))]
    /\ ledger_pc' = [ledger_pc EXCEPT ![p] = "returned"]
    /\ UNCHANGED <<workload, db, before, applied_net, first_attempt, cacheVars, readerVars,
                   chainVars, scanVars, claimVars, txVars, cutoffVars>>

\* the two SELECTs and INSERT INTO rewards execute and the transaction ends:
\* committed, or rolled back by the first error
EndTransaction(p) ==
    /\ ledger_pc[p] = "called"
    /\ tx[p] = "inserted"
    /\ LET result == SignupUserTransaction(db, call[p].args.user_pubkey,
                                           call[p].args.pool_authority_pubkey)
       IN  /\ db' = result.tables
           /\ call' = [call EXCEPT ![p].res = Classify(call[p].op, result)]
    /\ tx' = [tx EXCEPT ![p] = "none"]
    /\ ledger_pc' = [ledger_pc EXCEPT ![p] = "returned"]
    /\ UNCHANGED <<workload, before, applied_net, first_attempt, cacheVars, readerVars,
                   chainVars, scanVars, claimVars, cutoffVars>>

\* the interaction fails while the transaction is open: nothing is committed
AbortTransaction(p) ==
    /\ ledger_pc[p] = "called"
    /\ tx[p] = "inserted"
    /\ call' = [call EXCEPT ![p].res = "InteractionFailed"]
    /\ tx' = [tx EXCEPT ![p] = "none"]
    /\ ledger_pc' = [ledger_pc EXCEPT ![p] = "returned"]
    /\ UNCHANGED <<workload, db, before, applied_net, first_attempt, cacheVars, readerVars,
                   chainVars, scanVars, claimVars, cutoffVars>>

\* the caller is done with the result
Finish(p) ==
    /\ ledger_pc[p] = "returned"
    /\ ledger_pc' = [ledger_pc EXCEPT ![p] = "idle"]
    /\ call' = [call EXCEPT ![p] = NoCall]
    /\ before' = [before EXCEPT ![p] = InitialTables]
    /\ first_attempt' = [first_attempt EXCEPT ![p] = NoAttempt]
    /\ UNCHANGED <<workload, db, applied_net, cacheVars, readerVars, utilVars>>

\* the caller submits the list of its returned incrementing batch a second time
Resubmit(p) ==
    /\ ledger_pc[p] = "returned"
    /\ call[p].op \in {"update_rewards", "update_stake_accounts_rewards"}
    /\ first_attempt[p] = NoAttempt
    /\ first_attempt' = [first_attempt EXCEPT ![p] = [res |-> call[p].res, before |-> before[p]]]
    /\ call' = [call EXCEPT ![p].res = "pending"]
    /\ before' = [before EXCEPT ![p] = db]
    /\ ledger_pc' = [ledger_pc EXCEPT ![p] = "called"]
    /\ UNCHANGED <<workload, db, applied_net, cacheVars, readerVars, utilVars>>

\* the caller submits the list of its returned staked-balance batch a second time
ResubmitStakedBalance(p) ==
    /\ ledger_pc[p] = "returned"
    /\ call[p].op = "update_stake_accounts_staked_balance"
    /\ first_attempt[p] = NoAttempt
    /\ first_attempt' = [first_attempt EXCEPT ![p] = [res |-> call[p].res, before |-> before[p]]]
    /\ call' = [call EXCEPT ![p].res = "pending"]
    /\ before' = [before EXCEPT ![p] = db]
    /\ ledger_pc' = [ledger_pc EXCEPT ![p] = "called"]
    /\ UNCHANGED <<workload, db, applied_net, cacheVars, readerVars, utilVars>>

(***************************************************************************)
(* Claim processing.  The calls it is made of are those of app_database.rs;*)
(* each runs on its own pooled connection in autocommit mode.  Processing  *)
(* stops at the first call that returns an error.                          *)
(***************************************************************************)
ClaimStart(i) ==
    /\ claim_pc = "idle"
    /\ ledger_pc["c1"] = "idle"
    /\ claim_pc' = "running"
    /\ claim' = [NoClaim EXCEPT !.miner_id = i.miner_id, !.amount = i.amount,
                                !.signature = i.signature, !.start = db]
    /\ UNCHANGED <<ledgerVars, cacheVars, readerVars, chainVars, scanVars, txVars, cutoffVars>>

\* the miner is credited before it claims
ClaimCredit(c) ==
    /\ claim_pc = "idle"
    /\ c \in CreditCalls
    /\ Call("c1", c)

\* the next call of the claim is issued
ClaimCall(step) ==
    /\ claim_pc = "running"
    /\ ClaimStepReady(step, claim.done)
    /\ Call("c1", ClaimCallOf(step, claim))

\* the call has returned: on Ok the step is done, on an error processing stops
ClaimReturn ==
    /\ claim_pc = "running"
    /\ ledger_pc["c1"] = "returned"
    /\ LET step == call["c1"].op
           done == claim.done \cup {step}
           hit == Matching(db.txns, LAMBDA row : row.signature = claim.signature)
       IN  IF call["c1"].res = "Ok"
           THEN /\ claim' = [claim EXCEPT !.done = done,
                                          !.txn_id = IF step = "get_txn_by_sig"
                                                     THEN FirstId(hit) ELSE @]
                /\ claim_pc' = IF done = ClaimSteps THEN "completed" ELSE "running"
           ELSE /\ claim_pc' = "failed"
                /\ UNCHANGED claim
    /\ ledger_pc' = [ledger_pc EXCEPT !["c1"] = "idle"]
    /\ call' = [call EXCEPT !["c1"] = NoCall]
    /\ before' = [before EXCEPT !["c1"] = InitialTables]
    /\ UNCHANGED <<workload, db, applied_net, first_attempt, cacheVars, readerVars,
                   chainVars, scanVars, txVars, cutoffVars>>

\* both callers are done with their results
FinishBoth ==
    /\ \A p \in Callers : ledger_pc[p] = "returned"
    /\ ledger_pc' = [p \in Callers |-> "idle"]
    /\ call' = [p \in Callers |-> NoCall]
    /\ before' = [p \in Callers |-> InitialTables]
    /\ UNCHANGED <<workload, db, applied_net, first_attempt, cacheVars, readerVars, utilVars>>

(***************************************************************************)
(* The cache subsystem.                                                    *)
(***************************************************************************)
\* An RPC or database call may stay unanswered for any time.  A behaviour of
\* SpecCache follows the caches of one of these sets; the fetches of the other
\* tasks stay unanswered (tasks share no state: each owns its own RwLock).
(***************************************************************************)
(* get_proof_and_config_with_busses (ore_utils.rs:246-337).                *)
(* One batched read of ten accounts: the proof, the config, eight busses.  *)
(* A slot of the answer is "absent" (None), "valid" (bytes of the layout   *)
(* its decoder expects) or "wrong_layout" (bytes try_from_bytes rejects).  *)
(***************************************************************************)
account_pubkeys ==
    <<"proof", "config", "bus", "bus", "bus", "bus", "bus", "bus", "bus", "bus">>

NoDatas == <<>>

DatasInputs ==
    {d \in [DOMAIN account_pubkeys -> {"absent", "valid", "wrong_layout"}] :
        \/ Cardinality({i \in DOMAIN d : d[i] # "valid"}) <= MaxFaultyAccounts
        \/ \A i \in DOMAIN d : d[i] = "absent"}

ResultOk(v) == [ok |-> TRUE, value |-> v]
ResultErr == [ok |-> FALSE, value |-> <<>>]

NoBussesResult == <<>>

\* if let Some(data) = &datas[i] { Ok(*T::try_from_bytes(..).expect(..)) } else { Err(()) }
\* for a slot that is not of a wrong layout
DecodeSlot(d, i) ==
    IF d[i] = "valid" THEN ResultOk(<<account_pubkeys[i], i>>) ELSE ResultErr

\* .expect(..) on a slot whose bytes try_from_bytes rejects
ExpectPanics(d) == \E i \in DOMAIN d : d[i] = "wrong_layout"

GetProofAndConfigWithBusses ==
    /\ busses_pc = "idle"
    /\ busses_pc' = "get_multiple_accounts"
    /\ datas' = NoDatas
    /\ busses_result' = NoBussesResult
    /\ UNCHANGED <<cacheVars, readerVars, ledgerVars, scanVars, claimVars, txVars, cutoffVars>>

\* if let Ok(datas) = datas
GetMultipleAccountsOk(d) ==
    /\ busses_pc = "get_multiple_accounts"
    /\ datas' = d
    /\ busses_pc' = "decode"
    /\ UNCHANGED <<busses_result, cacheVars, readerVars, ledgerVars, scanVars, claimVars, txVars, cutoffVars>>

\* else { (Err(()), Err(()), Err(())) }
GetMultipleAccountsErr ==
    /\ busses_pc = "get_multiple_accounts"
    /\ busses_result' = <<ResultErr, ResultErr, ResultErr>>
    /\ busses_pc' = "returned"
    /\ UNCHANGED <<datas, cacheVars, readerVars, ledgerVars, scanVars, claimVars, txVars, cutoffVars>>

\* the ten decodes and the returned triple
DecodeAccounts ==
    /\ busses_pc = "decode"
    /\ IF ExpectPanics(datas)
       THEN /\ busses_pc' = "panicked"
            /\ UNCHANGED busses_result
       ELSE /\ busses_pc' = "returned"
            /\ busses_result' =
                  <<DecodeSlot(datas, 1), DecodeSlot(datas, 2),
                    ResultOk([b \in 1..8 |-> DecodeSlot(datas, b + 2)])>>
    /\ UNCHANGED <<datas, cacheVars, readerVars, ledgerVars, scanVars, claimVars, txVars, cutoffVars>>

\* the caller is done with the triple
BussesReturn ==
    /\ busses_pc = "returned"
    /\ busses_pc' = "idle"
    /\ datas' = NoDatas
    /\ busses_result' = NoBussesResult
    /\ UNCHANGED <<cacheVars, readerVars, ledgerVars, scanVars, claimVars, txVars, cutoffVars>>

(***************************************************************************)
(* Paginated scans (app_database.rs:725-758, 799-830, 1147-1180):          *)
(*   SELECT * FROM miners m WHERE m.id > ? ORDER BY m.id ASC LIMIT 500     *)
(*   SELECT * FROM rewards r WHERE r.id > ? ORDER BY r.id ASC LIMIT 500    *)
(*   SELECT * FROM stake_accounts s WHERE s.pool_id = ? AND s.id > ?       *)
(*     ORDER BY s.id ASC LIMIT 500                                         *)
(***************************************************************************)
ScanOps == {"get_miner_accounts", "get_miner_reward_accounts", "get_stake_accounts"}

\* the pool whose stake accounts are scanned
ScanPoolId == 1

\* row counts explored: around every hundred up to MaxRows
RowCounts == {n \in 0..MaxRows : n % 100 \in {0, 1, 99}}

\* a static table of n rows for the scan, ids ascending by `stride`; the
\* stake_accounts table also holds rows of another pool at the ids in
\* between; "desc" stores the rows in descending id order
ScanTable(op, n, stride, order) ==
    LET own == [k \in 1..n |-> [id |-> k * stride, pool_id |-> ScanPoolId]]
        other == IF op = "get_stake_accounts" /\ stride > 1
                 THEN [k \in 1..n |-> [id |-> k * stride - 1, pool_id |-> ScanPoolId + 1]]
                 ELSE <<>>
        asc == own \o other
    IN  IF order = "asc" THEN asc ELSE [i \in DOMAIN asc |-> asc[Len(asc) + 1 - i]]

\* the rows the scan is to cover
ScanTarget(op, rows) ==
    {rows[i] : i \in {k \in DOMAIN rows : op = "get_stake_accounts" => rows[k].pool_id = ScanPoolId}}

\* (a query whose lower bound includes last_id)
PageStatementInclusive(op, rows, pool_id, from_id) ==
    LET hit == SelectSeq(rows, LAMBDA r :
                      (r.id >= from_id) /\ (op = "get_stake_accounts" => r.pool_id = pool_id))
        sorted == SortSeq(hit, LAMBDA a, b : a.id < b.id)
    IN  SubSeq(sorted, 1, IF Len(sorted) < PAGE_LIMIT THEN Len(sorted) ELSE PAGE_LIMIT)

\* WHERE [pool_id = ? AND] id > ? ORDER BY id ASC LIMIT 500
PageStatement(op, rows, pool_id, from_id) ==
    LET hit == SelectSeq(rows, LAMBDA r :
                      (r.id > from_id) /\ (op = "get_stake_accounts" => r.pool_id = pool_id))
        sorted == SortSeq(hit, LAMBDA a, b : a.id < b.id)
    IN  SubSeq(sorted, 1, IF Len(sorted) < PAGE_LIMIT THEN Len(sorted) ELSE PAGE_LIMIT)

\* a scan starts with last_id = 0
ScanStart ==
    /\ scan_pc = "idle"
    /\ scan_pc' = "scanning"
    /\ last_id' = 0
    /\ pages' = <<>>
    /\ UNCHANGED <<scan_op, scan_rows, cacheVars, readerVars, ledgerVars, chainVars, claimVars, txVars, cutoffVars>>

\* one call returns Ok(page): the scan ends on a page of fewer than 500 rows,
\* otherwise its cursor moves to the last id of the page
ScanPage ==
    /\ scan_pc = "scanning"
    /\ LET page == PageStatement(scan_op, scan_rows, ScanPoolId, last_id)
       IN  /\ pages' = Append(pages, page)
           /\ IF Len(page) < PAGE_LIMIT
              THEN scan_pc' = "done" /\ UNCHANGED last_id
              ELSE scan_pc' = "scanning" /\ last_id' = page[Len(page)].id
    /\ UNCHANGED <<scan_op, scan_rows, cacheVars, readerVars, ledgerVars, chainVars, claimVars, txVars, cutoffVars>>

\* one call returns an error: the scan stops
ScanPageErr ==
    /\ scan_pc = "scanning"
    /\ scan_pc' = "failed"
    /\ UNCHANGED <<scan_op, scan_rows, last_id, pages, cacheVars, readerVars, ledgerVars, chainVars, claimVars, txVars, cutoffVars>>

InitChainVars ==
    /\ busses_pc = "idle"
    /\ datas = NoDatas
    /\ busses_result = NoBussesResult

InitScanVars(ops, counts, strides, orders) ==
    /\ scan_op \in ops
    /\ \E n \in counts, stride \in strides, order \in orders :
          scan_rows = ScanTable(scan_op, n, stride, order)
    /\ scan_pc = "idle"
    /\ last_id = 0
    /\ pages = <<>>

(***************************************************************************)
(* get_cutoff (ore_utils.rs:407-417): the seconds left until the cutoff of *)
(* a proof.  last_hash_at and now are i64, buffer_time is u64 and is cast  *)
(* with `as i64`, which keeps the bits.                                    *)
(***************************************************************************)
MinI64 == 0 - 2^(TimeBits - 1)
MaxI64 == 2^(TimeBits - 1) - 1
MaxBufferTime == 2^TimeBits - 1

I64 == MinI64..MaxI64

\* `u as i64`: the two's complement reading of the same bits
AsI64(u) == IF u > MaxI64 THEN u - 2^TimeBits ELSE u

Saturate(n) == IF n > MaxI64 THEN MaxI64 ELSE IF n < MinI64 THEN MinI64 ELSE n

saturating_add(a, b) == Saturate(a + b)
saturating_sub(a, b) == Saturate(a - b)

get_cutoff(last_hash_at, buffer_time, clock) ==
    saturating_sub(saturating_sub(saturating_add(last_hash_at, CUTOFF_WINDOW_SECS),
                                  AsI64(buffer_time)),
                   clock)

\* the seconds since the epoch the system clock may show (as_secs() as i64)
NowInputs == {0, 1, MaxI64}

NoCutoff == [pc |-> "idle", last_hash_at |-> 0, buffer_time |-> 0, now |-> 0, result |-> 0]

\* the call reads the clock and returns
GetCutoff ==
    /\ cutoff.pc = "called"
    /\ \E clock \in NowInputs :
          cutoff' = [cutoff EXCEPT !.pc = "returned",
                                   !.now = clock,
                                   !.result = get_cutoff(cutoff.last_hash_at,
                                                         cutoff.buffer_time, clock)]
    /\ UNCHANGED <<cacheVars, readerVars, ledgerVars, chainVars, scanVars, claimVars, txVars>>

\* the system clock is before the epoch: expect("Failed to get time") panics
GetCutoffClockBeforeEpoch ==
    /\ cutoff.pc = "called"
    /\ cutoff' = [cutoff EXCEPT !.pc = "panicked"]
    /\ UNCHANGED <<cacheVars, readerVars, ledgerVars, chainVars, scanVars, claimVars, txVars>>

InitCutoffVars == cutoff = NoCutoff

InitClaimVars ==
    /\ claim_pc = "idle"
    /\ claim = NoClaim

InitTxVars == tx = [p \in Callers |-> "none"]

InitUtilVars ==
    /\ InitChainVars
    /\ InitClaimVars
    /\ InitTxVars
    /\ InitCutoffVars
    /\ InitScanVars({"get_miner_accounts"}, {0}, {1}, {"asc"})

ResponsiveSets == {{c} : c \in Caches}

InitCacheVars(configs, sets) ==
    /\ stats_enabled \in configs
    /\ responsive \in sets
    /\ started = FALSE
    /\ task_pc = [c \in Caches |-> "none"]
    /\ fetch_result = [c \in Caches |-> "none"]
    /\ fetched = [c \in Caches |-> NoValue]
    /\ item = [c \in Caches |-> EmptyItem(c)]
    /\ last_updated_at = [c \in Caches |-> 0]
    /\ published = [c \in Caches |-> [item |-> EmptyItem(c), last_updated_at |-> 0]]
    /\ write_locked = [c \in Caches |-> FALSE]
    /\ read_holders = [c \in Caches |-> {}]
    /\ wake_at = [c \in Caches |-> 0]
    /\ now = 0
    /\ ticks = 0
    /\ reader_pc = [r \in Readers |-> "idle"]
    /\ reader_cache = [r \in Readers |-> "latest_blockhash"]
    /\ observed = [r \in Readers |-> [item |-> NoValue, last_updated_at |-> 0]]

InitLedgerVars(families) ==
    /\ workload \in families
    /\ db = InitialTables
    /\ ledger_pc = [p \in Callers |-> "idle"]
    /\ call = [p \in Callers |-> NoCall]
    /\ before = [p \in Callers |-> InitialTables]
    /\ applied_net = [i \in DOMAIN InitialTables.rewards |-> 0]
    /\ first_attempt = [p \in Callers |-> NoAttempt]

InitCache == InitCacheVars(BOOLEAN, ResponsiveSets) /\ InitLedgerVars({"rewards"}) /\ InitUtilVars

NextCache ==
    \/ CacheUpdateSystem
    \/ \E lb \in 1..NumValues : LatestBlockhashFetchOk(lb)
    \/ LatestBlockhashFetchErr
    \/ LatestBlockhashRetry
    \/ \E accounts \in AccountReads : BoostMultiplierFetchOk(accounts)
    \/ BoostMultiplierFetchErr
    \/ \E c \in DbCaches, rows \in 1..NumValues : DbFetchOk(c, rows)
    \/ \E c \in DbCaches : DbFetchErr(c)
    \/ \E c \in Caches : AcquireWrite(c)
    \/ \E c \in Caches : SetItem(c)
    \/ \E c \in Caches : SetLastUpdatedAt(c)
    \/ \E c \in Caches : DropWriter(c)
    \/ \E c \in Caches : WakeUp(c)
    \/ Tick
    \/ \E r \in Readers, c \in Caches : ReadLock(r, c)
    \/ \E r \in Readers : ReadItem(r)
    \/ \E r \in Readers : ReadLastUpdatedAt(r)
    \/ \E r \in Readers : ReadUnlock(r)

SpecCache == InitCache /\ [][NextCache]_vars

(***************************************************************************)
(* The refresh tasks while the latest-blockhash fetch never succeeds and   *)
(* the fetches of one other cache always do.  A task that can take a step  *)
(* takes it; write().await is served in turn (tokio's RwLock is fair), so  *)
(* a waiting writer gets the lock although readers come and go.            *)
(***************************************************************************)
InitIndependent ==
    /\ InitCacheVars({TRUE}, {{"latest_blockhash", c} : c \in StatsCaches})
    /\ InitLedgerVars({"rewards"})
    /\ InitUtilVars

NextIndependent ==
    \/ CacheUpdateSystem
    \/ LatestBlockhashFetchErr
    \/ LatestBlockhashRetry
    \/ \E accounts \in AccountReads : BoostMultiplierFetchOk(accounts)
    \/ \E c \in DbCaches, rows \in 1..NumValues : DbFetchOk(c, rows)
    \/ \E c \in Caches : AcquireWrite(c)
    \/ \E c \in Caches : SetItem(c)
    \/ \E c \in Caches : SetLastUpdatedAt(c)
    \/ \E c \in Caches : DropWriter(c)
    \/ \E c \in Caches : WakeUp(c)
    \/ Tick
    \/ \E r \in Readers, c \in Caches : ReadLock(r, c)
    \/ \E r \in Readers : ReadItem(r)
    \/ \E r \in Readers : ReadLastUpdatedAt(r)
    \/ \E r \in Readers : ReadUnlock(r)

\* the steps of the task of cache c once its fetch has answered
TaskStep(c) ==
    \/ /\ c = "boost_multiplier"
       /\ task_pc[c] = "fetch"
       /\ \E accounts \in AccountReads : BoostMultiplierFetchOk(accounts)
    \/ \E rows \in 1..NumValues : DbFetchOk(c, rows)
    \/ SetItem(c)
    \/ SetLastUpdatedAt(c)
    \/ DropWriter(c)

\* the steps of a reader that holds the read lock
ReaderStep(r) == ReadItem(r) \/ ReadLastUpdatedAt(r) \/ ReadUnlock(r)

FairTasks ==
    /\ \A c \in StatsCaches : WF_vars(TaskStep(c)) /\ SF_vars(AcquireWrite(c))
    /\ \A r \in Readers : WF_vars(ReaderStep(r))

SpecIndependent == InitIndependent /\ [][NextIndependent]_vars /\ FairTasks

(***************************************************************************)
(* The latest-blockhash task alone, with the same scheduling.              *)
(***************************************************************************)
InitBlockhash ==
    /\ InitCacheVars(BOOLEAN, {{"latest_blockhash"}})
    /\ InitLedgerVars({"rewards"})
    /\ InitUtilVars

NextBlockhash ==
    \/ CacheUpdateSystem
    \/ \E lb \in 1..NumValues : LatestBlockhashFetchOk(lb)
    \/ LatestBlockhashFetchErr
    \/ LatestBlockhashRetry
    \/ AcquireWrite("latest_blockhash")
    \/ SetItem("latest_blockhash")
    \/ SetLastUpdatedAt("latest_blockhash")
    \/ DropWriter("latest_blockhash")
    \/ WakeUp("latest_blockhash")
    \/ Tick
    \/ \E r \in Readers : ReadLock(r, "latest_blockhash")
    \/ \E r \in Readers : ReadItem(r)
    \/ \E r \in Readers : ReadLastUpdatedAt(r)
    \/ \E r \in Readers : ReadUnlock(r)

SpecBlockhash ==
    /\ InitBlockhash
    /\ [][NextBlockhash]_vars
    /\ WF_vars(TaskStep("latest_blockhash"))
    /\ SF_vars(AcquireWrite("latest_blockhash"))
    /\ \A r \in Readers : WF_vars(ReaderStep(r))

(***************************************************************************)
(* The ledger, one call at a time.                                         *)
(***************************************************************************)
InitLedger ==
    /\ InitCacheVars({FALSE}, {{}})
    /\ InitLedgerVars({"rewards", "staked_balance", "stake_rewards", "challenges"})
    /\ InitUtilVars

NextLedger ==
    \/ \E c \in CallsOn(workload) : Call("c1", c)
    \/ FailToGetConnection("c1")
    \/ FailToInteract("c1")
    \/ Execute("c1")
    \/ Finish("c1")

SpecLedger == InitLedger /\ [][NextLedger]_vars

(***************************************************************************)
(* The ledger, with callers that submit an incrementing batch twice.       *)
(***************************************************************************)
InitResubmit ==
    /\ InitCacheVars({FALSE}, {{}})
    /\ InitLedgerVars({"rewards", "stake_rewards"})
    /\ InitUtilVars

NextResubmit ==
    \/ NextLedger
    \/ Resubmit("c1")

SpecResubmit == InitResubmit /\ [][NextResubmit]_vars

(***************************************************************************)
(* The ledger, with callers that submit a staked-balance batch twice.      *)
(***************************************************************************)
InitOverwrite ==
    /\ InitCacheVars({FALSE}, {{}})
    /\ InitLedgerVars({"staked_balance"})
    /\ InitUtilVars

NextOverwrite ==
    \/ NextLedger
    \/ ResubmitStakedBalance("c1")

SpecOverwrite == InitOverwrite /\ [][NextOverwrite]_vars

(***************************************************************************)
(* The ledger, two calls on the rewards table at a time.                   *)
(***************************************************************************)
\* lists of one or two pairs for distinct miners that have a rewards row
ConcurrentLists ==
    {l \in BatchLists(UpdateRewardPairs) :
        /\ l # <<>>
        /\ \A i \in DOMAIN l : l[i].miner_id \in {1, 2}
        /\ \A i, j \in DOMAIN l : i # j => l[i].miner_id # l[j].miner_id}

ConcurrentCalls ==
    {NewCall("update_rewards", l) : l \in ConcurrentLists}
    \cup {NewCall("decrease_miner_reward", a) :
            a \in [miner_id : {1, 2}, rewards_to_decrease : 1..MaxDelta]}

InitConcurrent ==
    /\ InitCacheVars({FALSE}, {{}})
    /\ InitLedgerVars({"rewards"})
    /\ InitUtilVars

NextConcurrent ==
    \/ \E p \in Callers, c \in ConcurrentCalls : Call(p, c)
    \/ \E p \in Callers : Execute(p)
    \/ FinishBoth

SpecConcurrent == InitConcurrent /\ [][NextConcurrent]_vars

(***************************************************************************)
(* The ledger, single-row inserts and updates one call at a time.  A       *)
(* behaviour inserts at most MaxInserts rows into a table.                 *)
(***************************************************************************)
InsertOps == {"add_new_challenge", "add_new_pool"}

CanInsert(c) ==
    /\ c.op \in InsertOps =>
          Len(db[OpTable(c.op)]) < Len(InitialTables[OpTable(c.op)]) + MaxInserts
    /\ c.op = "add_new_submissions_batch" => Len(db.submissions) < MaxSubmissions

InitRowCount ==
    /\ InitCacheVars({FALSE}, {{}})
    /\ InitLedgerVars({"challenges", "new_challenges", "pool_rewards", "pool_claimed"})
    /\ InitUtilVars

NextRowCount ==
    \/ \E c \in CallsOn(workload) : CanInsert(c) /\ Call("c1", c)
    \/ FailToGetConnection("c1")
    \/ FailToInteract("c1")
    \/ Execute("c1")
    \/ Finish("c1")

SpecRowCount == InitRowCount /\ [][NextRowCount]_vars

(***************************************************************************)
(* The ledger, challenges added and finalized.  InsertChallenge carries    *)
(* rewards_earned : Option<u64>, which add_new_challenge binds as given.   *)
(***************************************************************************)
InitChallenges ==
    /\ InitCacheVars({FALSE}, {{}})
    /\ InitLedgerVars({"challenge_rows"})
    /\ InitUtilVars

SpecChallenges == InitChallenges /\ [][NextRowCount]_vars

(***************************************************************************)
(* The ledger, submissions added and looked up by nonce.                   *)
(***************************************************************************)
InitSubmissions ==
    /\ InitCacheVars({FALSE}, {{}})
    /\ InitLedgerVars({"submissions"})
    /\ InitUtilVars

SpecSubmissions == InitSubmissions /\ [][NextRowCount]_vars

(***************************************************************************)
(* The ledger, stake accounts added in batches.                            *)
(***************************************************************************)
InitStakeAccounts ==
    /\ InitCacheVars({FALSE}, {{}})
    /\ InitLedgerVars({"new_stake_accounts"})
    /\ InitUtilVars

SpecStakeAccounts == InitStakeAccounts /\ [][NextRowCount]_vars

(***************************************************************************)
(* The ledger, pools added and their counters increased.                   *)
(***************************************************************************)
InitPools ==
    /\ InitCacheVars({FALSE}, {{}})
    /\ InitLedgerVars({"pools"})
    /\ InitUtilVars

SpecPools == InitPools /\ [][NextRowCount]_vars

(***************************************************************************)
(* The ledger, every modelled operation, one call at a time.               *)
(***************************************************************************)
Families == {"rewards", "staked_balance", "stake_rewards", "challenges", "new_challenges",
             "pool_rewards", "pool_claimed", "txns", "signup", "submissions",
             "new_stake_accounts"}

InitOutcomes ==
    /\ InitCacheVars({FALSE}, {{}})
    /\ InitLedgerVars(Families)
    /\ InitUtilVars

NextOutcomes ==
    \/ \E c \in CallsOn(workload) : CanInsert(c) /\ Call("c1", c)
    \/ FailToGetConnection("c1")
    \/ FailToInteract("c1")
    \/ Execute("c1")
    \/ ExecuteTransaction("c1")
    \/ Finish("c1")

SpecOutcomes == InitOutcomes /\ [][NextOutcomes]_vars

(***************************************************************************)
(* The ledger, miners signing up and their rewards credited and claimed,   *)
(* one call at a time.                                                     *)
(***************************************************************************)
InitSignupRewards ==
    /\ InitCacheVars({FALSE}, {{}})
    /\ InitLedgerVars({"signup_rewards"})
    /\ InitUtilVars

SpecSignupRewards == InitSignupRewards /\ [][NextOutcomes]_vars

(***************************************************************************)
(* get_cutoff called with every proof and buffer time.                     *)
(***************************************************************************)
InitCutoff ==
    /\ InitCacheVars({FALSE}, {{}})
    /\ InitLedgerVars({"rewards"})
    /\ InitChainVars
    /\ InitClaimVars
    /\ InitTxVars
    /\ InitScanVars({"get_miner_accounts"}, {0}, {1}, {"asc"})
    /\ \E last_hash_at \in I64, buffer_time \in 0..MaxBufferTime :
          cutoff = [NoCutoff EXCEPT !.pc = "called",
                                    !.last_hash_at = last_hash_at,
                                    !.buffer_time = buffer_time]

NextCutoff ==
    \/ GetCutoff
    \/ GetCutoffClockBeforeEpoch

SpecCutoff == InitCutoff /\ [][NextCutoff]_vars

(***************************************************************************)
(* The ledger, two callers recording transactions.                         *)
(***************************************************************************)
InitTxns ==
    /\ InitCacheVars({FALSE}, {{}})
    /\ InitLedgerVars({"txns"})
    /\ InitUtilVars

NextTxns ==
    \/ \E p \in Callers, c \in CallsOn(workload) : Call(p, c)
    \/ \E p \in Callers : FailToGetConnection(p)
    \/ \E p \in Callers : FailToInteract(p)
    \/ \E p \in Callers : Execute(p)
    \/ \E p \in Callers : Finish(p)

SpecTxns == InitTxns /\ [][NextTxns]_vars

(***************************************************************************)
(* The ledger, a miner credited and then claiming.                         *)
(***************************************************************************)
InitClaim ==
    /\ InitCacheVars({FALSE}, {{}})
    /\ InitLedgerVars({"claim"})
    /\ InitUtilVars

NextClaim ==
    \/ \E c \in CreditCalls : ClaimCredit(c)
    \/ claim_pc = "idle" /\ Finish("c1")
    \/ \E i \in ClaimInputs : ClaimStart(i)
    \/ \E step \in ClaimSteps : ClaimCall(step)
    \/ FailToGetConnection("c1")
    \/ FailToInteract("c1")
    \/ Execute("c1")
    \/ ClaimReturn

SpecClaim == InitClaim /\ [][NextClaim]_vars

(***************************************************************************)
(* The ledger, two callers signing miners up.                              *)
(***************************************************************************)
InitSignup ==
    /\ InitCacheVars({FALSE}, {{}})
    /\ InitLedgerVars({"signup"})
    /\ InitUtilVars

NextSignup ==
    \/ \E p \in Callers, c \in CallsOn(workload) : Call(p, c)
    \/ \E p \in Callers : FailToGetConnection(p)
    \/ \E p \in Callers : FailToInteract(p)
    \/ \E p \in Callers : ExecuteTransaction(p)
    \/ \E p \in Callers : Finish(p)

SpecSignup == InitSignup /\ [][NextSignup]_vars

(***************************************************************************)
(* The ledger, two callers whose signup transactions overlap.              *)
(***************************************************************************)
NextSignupOverlapping ==
    \/ \E p \in Callers, c \in CallsOn(workload) : Call(p, c)
    \/ \E p \in Callers : tx[p] = "none" /\ FailToGetConnection(p)
    \/ \E p \in Callers : tx[p] = "none" /\ FailToInteract(p)
    \/ \E p \in Callers : InsertMiner(p)
    \/ \E p \in Callers : LockWaitTimeout(p)
    \/ \E p \in Callers : EndTransaction(p)
    \/ \E p \in Callers : AbortTransaction(p)
    \/ \E p \in Callers : Finish(p)

SpecSignupOverlapping == InitSignup /\ [][NextSignupOverlapping]_vars

(***************************************************************************)
(* Properties of the cache subsystem.                                      *)
(***************************************************************************)
\* C1 (as claimed): stale-but-valid - in a refresh cycle whose fetch failed, no
\* step changes the cache's published item or its last_updated_at.
C1_FailedFetchPublishesNothing ==
    [][\A c \in Caches :
          fetch_result[c] = "err" =>
             /\ item'[c] = item[c]
             /\ last_updated_at'[c] = last_updated_at[c]]_vars

\* C2: a reader that has copied item and last_updated_at under the read lock
\* holds the pair of the last completed publish: never the item of one publish
\* with the last_updated_at of another.
C2_ReadersSeeAtomicPublish ==
    \A r \in Readers :
       reader_pc[r] = "read_done" => observed[r] = published[reader_cache[r]]

\* a reader holds a published (non-initial) snapshot, taken at a later time than
\* the start, while the refresh task of that cache waits for the write lock
C2_Witness ==
    \E r \in Readers :
       /\ reader_pc[r] = "read_done"
       /\ observed[r].item # EmptyItem(reader_cache[r])
       /\ observed[r].last_updated_at > 0
       /\ task_pc[reader_cache[r]] = "write"
       /\ fetched[reader_cache[r]] # observed[r].item

(***************************************************************************)
(* Chain reads.                                                            *)
(***************************************************************************)
InitChain ==
    /\ InitCacheVars({FALSE}, {{}})
    /\ InitLedgerVars({"rewards"})
    /\ InitUtilVars

(***************************************************************************)
(* Paginated scans of a static table.                                      *)
(***************************************************************************)
InitScan ==
    /\ InitCacheVars({FALSE}, {{}})
    /\ InitLedgerVars({"rewards"})
    /\ InitChainVars
    /\ InitClaimVars
    /\ InitTxVars
    /\ InitCutoffVars
    /\ InitScanVars(ScanOps, RowCounts, 1..MaxStride, {"asc", "desc"})

NextScan ==
    \/ ScanStart
    \/ ScanPage
    \/ ScanPageErr

SpecScan == InitScan /\ [][NextScan]_vars

NextChain ==
    \/ GetProofAndConfigWithBusses
    \/ \E d \in DatasInputs : GetMultipleAccountsOk(d)
    \/ GetMultipleAccountsErr
    \/ DecodeAccounts
    \/ BussesReturn

SpecChain == InitChain /\ [][NextChain]_vars

(***************************************************************************)
(* Properties of the ledger operations.  Caller c1's returned call is      *)
(* call["c1"]; before["c1"] holds the tables as they were when it was      *)
(* issued and db the tables as they are now.                               *)
(***************************************************************************)
Ran(p, ops) ==
    /\ ledger_pc[p] = "returned"
    /\ call[p].op \in ops
    /\ call[p].res \in {"Ok", "QueryFailed", "FailedToUpdateRow"}

MinerIds(rewards) == {rewards[k].miner_id : k \in DOMAIN rewards}
StakePdas(stake_accts) == {stake_accts[k].stake_pda : k \in DOMAIN stake_accts}

UniqueMinerIds(rewards) == Cardinality(MinerIds(rewards)) = Len(rewards)
UniqueStakePdas(stake_accts) == Cardinality(StakePdas(stake_accts)) = Len(stake_accts)

Reversed(l) == [i \in DOMAIN l |-> l[Len(l) + 1 - i]]

\* the pairs of a list applied one call at a time, in the order of the list
RECURSIVE OneByOne(_, _)
OneByOne(table, rewards) ==
    IF rewards = <<>> THEN table
    ELSE OneByOne(UpdateRewardsStatement(table, <<Head(rewards)>>).table, Tail(rewards))

BatchLikeOneByOne(p) ==
    /\ db.rewards = OneByOne(before[p].rewards, call[p].args)
    /\ db.rewards = OneByOne(before[p].rewards, Reversed(call[p].args))
    /\ db.rewards = UpdateRewardsStatement(before[p].rewards, Reversed(call[p].args)).table

UniqueExistingBatch(p) ==
    /\ Ran(p, {"update_rewards"})
    /\ call[p].args # <<>>
    /\ UniqueMinerIds(call[p].args)
    /\ MinerIds(call[p].args) \subseteq {before[p].rewards[i].miner_id : i \in DOMAIN before[p].rewards}

\* C3 (as claimed): for every list of distinct miner ids whose rows exist, one
\* update_rewards call leaves the rewards table as applying the pairs one at
\* a time does, in either order, and as the reordered list does.
C3_BatchEqualsOneByOne ==
    UniqueExistingBatch("c1") => BatchLikeOneByOne("c1")

\* C3 (amended): the same, for an update_rewards call that returns Ok.
C3_OkBatchEqualsOneByOne ==
    (UniqueExistingBatch("c1") /\ call["c1"].res = "Ok") => BatchLikeOneByOne("c1")

C3_Witness ==
    /\ UniqueExistingBatch("c1")
    /\ call["c1"].res = "Ok"
    /\ Len(call["c1"].args) = 2
    /\ call["c1"].args[1].balance # call["c1"].args[2].balance
    /\ \A i \in DOMAIN db.rewards : db.rewards[i].balance > before["c1"].rewards[i].balance

\* every listed row holds what it held before the first submission plus
\* twice its delta
AddedTwice(p) ==
    LET args == call[p].args
        first == first_attempt[p].before
    IN  IF call[p].op = "update_rewards"
        THEN \A i \in DOMAIN db.rewards :
                db.rewards[i].miner_id \in MinerIds(args) =>
                   db.rewards[i].balance =
                      first.rewards[i].balance + 2 * RewardsCase(args, db.rewards[i].miner_id)
        ELSE \A i \in DOMAIN db.stake_accounts :
                db.stake_accounts[i].stake_pda \in StakePdas(args) =>
                   LET d == StakeRewardsCase(args, db.stake_accounts[i].stake_pda)
                   IN  /\ db.stake_accounts[i].rewards_balance =
                             first.stake_accounts[i].rewards_balance + 2 * d
                       /\ db.stake_accounts[i].total_rewards_earned =
                             first.stake_accounts[i].total_rewards_earned + 2 * d

SubmittedTwice(p) ==
    /\ Ran(p, {"update_rewards", "update_stake_accounts_rewards"})
    /\ first_attempt[p].res = "Ok"
    /\ IF call[p].op = "update_rewards" THEN UniqueMinerIds(call[p].args)
       ELSE UniqueStakePdas(call[p].args)

\* C4 (as claimed): submitting the same unique-key list twice through
\* update_rewards or update_stake_accounts_rewards adds every delta twice.
C4_SecondSubmissionAddsAgain ==
    SubmittedTwice("c1") => AddedTwice("c1")

\* C4 (amended): when both submissions return Ok, every delta has been added
\* twice.
C4_TwoOkSubmissionsAddTwice ==
    (SubmittedTwice("c1") /\ call["c1"].res = "Ok") => AddedTwice("c1")

C4_Witness ==
    /\ SubmittedTwice("c1")
    /\ call["c1"].res = "Ok"
    /\ call["c1"].args = <<[miner_id |-> 1, balance |-> 2], [miner_id |-> 2, balance |-> 1]>>
    /\ db.rewards[1].balance = first_attempt["c1"].before.rewards[1].balance + 4
    /\ db.rewards[2].balance = first_attempt["c1"].before.rewards[2].balance + 2

BatchOps ==
    {"update_rewards", "update_stake_accounts_staked_balance", "update_stake_accounts_rewards"}

\* C5: a batch update that returns an error has changed nothing; one that
\* returns Ok has given every listed row that exists its new value.
C5_BatchAllOrNothing ==
    (ledger_pc["c1"] = "returned" /\ call["c1"].op \in BatchOps) =>
       LET args == call["c1"].args
           old == before["c1"]
       IN  IF call["c1"].res # "Ok" THEN db = old
           ELSE CASE call["c1"].op = "update_rewards" ->
                       \A i \in DOMAIN db.rewards :
                          db.rewards[i].miner_id \in MinerIds(args) =>
                             db.rewards[i].balance =
                                old.rewards[i].balance + RewardsCase(args, db.rewards[i].miner_id)
                  [] call["c1"].op = "update_stake_accounts_staked_balance" ->
                       \A i \in DOMAIN db.stake_accounts :
                          db.stake_accounts[i].stake_pda \in StakePdas(args) =>
                             db.stake_accounts[i].staked_balance =
                                StakedCase(args, db.stake_accounts[i].stake_pda)
                  [] call["c1"].op = "update_stake_accounts_rewards" ->
                       \A i \in DOMAIN db.stake_accounts :
                          db.stake_accounts[i].stake_pda \in StakePdas(args) =>
                             LET d == StakeRewardsCase(args, db.stake_accounts[i].stake_pda)
                             IN  /\ db.stake_accounts[i].rewards_balance =
                                       old.stake_accounts[i].rewards_balance + d
                                 /\ db.stake_accounts[i].total_rewards_earned =
                                       old.stake_accounts[i].total_rewards_earned + d

C5_Witness ==
    /\ UniqueExistingBatch("c1")
    /\ call["c1"].res = "QueryFailed"
    /\ Len(call["c1"].args) = 2
    /\ \E i \in DOMAIN db.rewards :
          /\ before["c1"].rewards[i].balance
                + RewardsCase(call["c1"].args, db.rewards[i].miner_id) <= MaxU64
          /\ db.rewards[i].balance = before["c1"].rewards[i].balance

\* C6: a batch update leaves the rows it does not list as they were, changes
\* only its target columns in the rows it lists, and sets none of them to NULL.
C6_BatchFrame ==
    (ledger_pc["c1"] = "returned" /\ call["c1"].op \in BatchOps) =>
       LET args == call["c1"].args
           old == before["c1"]
       IN  /\ db.challenges = old.challenges
           /\ DOMAIN db.rewards = DOMAIN old.rewards
           /\ DOMAIN db.stake_accounts = DOMAIN old.stake_accounts
           /\ \A i \in DOMAIN db.rewards :
                 IF call["c1"].op = "update_rewards" /\ old.rewards[i].miner_id \in MinerIds(args)
                 THEN /\ db.rewards[i] = [old.rewards[i] EXCEPT !.balance = db.rewards[i].balance]
                      /\ db.rewards[i].balance # NULL
                 ELSE db.rewards[i] = old.rewards[i]
           /\ \A i \in DOMAIN db.stake_accounts :
                 LET new == db.stake_accounts[i]
                     listed == /\ call["c1"].op # "update_rewards"
                               /\ old.stake_accounts[i].stake_pda \in StakePdas(args)
                 IN  CASE listed /\ call["c1"].op = "update_stake_accounts_staked_balance" ->
                             /\ new = [old.stake_accounts[i] EXCEPT
                                          !.staked_balance = new.staked_balance]
                             /\ new.staked_balance # NULL
                       [] listed /\ call["c1"].op = "update_stake_accounts_rewards" ->
                             /\ new = [old.stake_accounts[i] EXCEPT
                                          !.rewards_balance = new.rewards_balance,
                                          !.total_rewards_earned = new.total_rewards_earned]
                             /\ new.rewards_balance # NULL
                             /\ new.total_rewards_earned # NULL
                       [] OTHER -> new = old.stake_accounts[i]

C6_Witness ==
    /\ Ran("c1", {"update_rewards"})
    /\ call["c1"].res = "Ok"
    /\ MinerIds(call["c1"].args) = {1}
    /\ db.rewards[1].balance > before["c1"].rewards[1].balance
    /\ db.rewards[2].balance > 0
    /\ db.rewards[2] = before["c1"].rewards[2]

\* C7: no reward balance and no stake rewards balance leaves 0..MaxU64; a
\* decrease larger than the balance is reported as a failure and changes
\* nothing; an increase that returns Ok has lowered no balance.
C7_NoNegativeNoWrap ==
    /\ \A i \in DOMAIN db.rewards : db.rewards[i].balance \in 0..MaxU64
    /\ \A i \in DOMAIN db.stake_accounts : db.stake_accounts[i].rewards_balance \in 0..MaxU64
    /\ Ran("c1", {"decrease_miner_reward"}) =>
          \A i \in DOMAIN db.rewards :
             (/\ before["c1"].rewards[i].miner_id = call["c1"].args.miner_id
              /\ before["c1"].rewards[i].balance < call["c1"].args.rewards_to_decrease)
             => (call["c1"].res # "Ok" /\ db = before["c1"])
    /\ Ran("c1", {"decrease_stakers_rewards"}) =>
          \A i \in DOMAIN db.stake_accounts :
             (/\ i = call["c1"].args.staker_id
              /\ before["c1"].stake_accounts[i].rewards_balance
                    < call["c1"].args.rewards_to_decrease)
             => (call["c1"].res # "Ok" /\ db = before["c1"])
    /\ (Ran("c1", {"update_rewards", "update_stake_accounts_rewards"}) /\ call["c1"].res = "Ok") =>
          /\ \A i \in DOMAIN db.rewards :
                db.rewards[i].balance >= before["c1"].rewards[i].balance
          /\ \A i \in DOMAIN db.stake_accounts :
                db.stake_accounts[i].rewards_balance
                   >= before["c1"].stake_accounts[i].rewards_balance

C7_Witness ==
    /\ Ran("c1", {"decrease_miner_reward"})
    /\ call["c1"].res = "QueryFailed"
    /\ \E i \in DOMAIN db.rewards :
          /\ db.rewards[i].miner_id = call["c1"].args.miner_id
          /\ db.rewards[i].balance > 0
          /\ db.rewards[i].balance < call["c1"].args.rewards_to_decrease
          /\ db.rewards[i] = before["c1"].rewards[i]

\* C8: in every reachable state a miner's reward balance is the sum of the
\* deltas added by update_rewards calls that returned Ok minus the sum of the
\* amounts removed by decrease_miner_reward calls that returned Ok.
C8_BalanceIsSumOfApplied ==
    \A i \in DOMAIN db.rewards : db.rewards[i].balance = applied_net[i]

C8_Witness ==
    /\ Ran("c1", {"decrease_miner_reward"})
    /\ call["c1"].res = "Ok"
    /\ call["c1"].args = [miner_id |-> 1, rewards_to_decrease |-> 1]
    /\ before["c1"].rewards[1].balance = MaxU64
    /\ db.rewards[1].balance = MaxU64 - 1
    /\ applied_net[1] = MaxU64 - 1

\* C9 (as claimed): once update_challenge_rewards has succeeded for a
\* challenge, no later update_challenge_rewards call changes that challenge's
\* submission_id or rewards_earned.
C9_FinalizedExactlyOnce ==
    Ran("c1", {"update_challenge_rewards"}) =>
       \A i \in DOMAIN db.challenges :
          before["c1"].challenges[i].submission_id # NULL =>
             db.challenges[i] = before["c1"].challenges[i]

\* C10: two calls on the rewards table that were in flight together and both
\* returned Ok have lost no update: every row holds what it held when they
\* were issued plus what each of them adds to it.
C10_NoLostUpdate ==
    (/\ \A p \in Callers : ledger_pc[p] = "returned" /\ call[p].res = "Ok"
     /\ before["c1"] = before["c2"])
    => \A i \in DOMAIN db.rewards :
          db.rewards[i].balance =
             before["c1"].rewards[i].balance
                + AppliedDelta(call["c1"], before["c1"].rewards, i)
                + AppliedDelta(call["c2"], before["c2"].rewards, i)

C10_Witness ==
    /\ \A p \in Callers :
          /\ ledger_pc[p] = "returned"
          /\ call[p].res = "Ok"
          /\ call[p].op = "update_rewards"
          /\ Len(call[p].args) = 2
    /\ before["c1"] = before["c2"]
    /\ call["c1"].args[1].miner_id # call["c2"].args[1].miner_id
    /\ db.rewards[1].balance = before["c1"].rewards[1].balance + 2
    /\ db.rewards[2].balance = before["c1"].rewards[2].balance + 3

(***************************************************************************)
(* Further properties of the refresh tasks.                                *)
(***************************************************************************)
\* C12 (as claimed): a refresh task whose fetch has failed sleeps for a delay
\* strictly shorter than its cache's refresh interval before it fetches
\* again, and publishes nothing in between.
C12_FailedFetchRetriesSooner ==
    [][\A c \in Caches :
          (task_pc[c] = "fetch" /\ task_pc'[c] # "fetch" /\ fetch_result'[c] = "err") =>
             /\ task_pc'[c] \in {"sleep", "retry_sleep"}
             /\ wake_at'[c] - now' < UpdateInterval(c)]_vars

\* C13 (as claimed): no started refresh task ever terminates or panics,
\* whatever its fetch returns.
C13_TasksNeverPanic ==
    \A c \in Caches :
       started => task_pc[c] \in {"none", "fetch", "retry_sleep", "write", "set_item",
                                  "set_last_updated_at", "drop", "sleep"}

\* C14 (as claimed): every value the boost-multiplier task publishes has one
\* entry for each of the three boost mints, in their order.
C14_BoostPublishesAllMints ==
    [][(task_pc["boost_multiplier"] = "drop" /\ task_pc'["boost_multiplier"] = "sleep") =>
          /\ Len(item'["boost_multiplier"]) = Len(BoostMints)
          /\ \A i \in DOMAIN item'["boost_multiplier"] :
                item'["boost_multiplier"][i].boost_mint = BoostMints[i]]_vars

\* C15: a refresh task holds its cache's write lock only between write().await
\* and drop(writer): never while it fetches or sleeps.
C15_WriteLockOnlyWhileAssigning ==
    \A c \in Caches :
       write_locked[c] <=> task_pc[c] \in {"set_item", "set_last_updated_at", "drop"}

C15_Witness ==
    \E c \in Caches :
       /\ write_locked[c]
       /\ task_pc[c] = "drop"
       /\ fetch_result[c] = "ok"
       /\ item[c] = fetched[c]
       /\ last_updated_at[c] > 0

(***************************************************************************)
(* Properties of the chain reads.                                          *)
(***************************************************************************)
\* C16 (as claimed): get_proof_and_config_with_busses never panics; when the
\* batched read succeeds it returns, for every account, Ok with the decoded
\* value if the account is present and decodable and an error for that
\* account only otherwise.
C16_BussesNeverPanicAndIndependent ==
    /\ busses_pc # "panicked"
    /\ (busses_pc = "returned" /\ datas # NoDatas) =>
          /\ busses_result[1] = DecodeSlot(datas, 1)
          /\ busses_result[2] = DecodeSlot(datas, 2)
          /\ busses_result[3].ok
          /\ \A b \in 1..8 : busses_result[3].value[b] = DecodeSlot(datas, b + 2)

(***************************************************************************)
(* Properties of the paginated scans.                                      *)
(***************************************************************************)
RECURSIVE Flatten(_)
Flatten(ps) == IF ps = <<>> THEN <<>> ELSE Head(ps) \o Flatten(Tail(ps))

\* C17: a scan that has ended (last_id from 0, then the last id of each full
\* page, until a page of fewer than 500 rows) has returned every row of the
\* table exactly once, in ascending id order, in pages of at most 500 rows;
\* 1200 rows come as pages of 500, 500 and 200.
C17_ScanCoversTableExactly ==
    scan_pc = "done" =>
       LET all == Flatten(pages)
           target == ScanTarget(scan_op, scan_rows)
       IN  /\ \A i \in 1..(Len(all) - 1) : all[i].id < all[i + 1].id
           /\ {all[i] : i \in DOMAIN all} = target
           /\ Len(all) = Cardinality(target)
           /\ \A k \in DOMAIN pages : Len(pages[k]) <= PAGE_LIMIT
           /\ \A k \in 1..(Len(pages) - 1) : Len(pages[k]) = PAGE_LIMIT
           /\ Cardinality(target) = 1200 =>
                 [k \in DOMAIN pages |-> Len(pages[k])] = <<500, 500, 200>>

C17_Witness ==
    /\ scan_pc = "done"
    /\ scan_op = "get_stake_accounts"
    /\ Len(scan_rows) = 2400
    /\ scan_rows[1].id > scan_rows[2].id
    /\ [k \in DOMAIN pages |-> Len(pages[k])] = <<500, 500, 200>>
    /\ last_id = 2000

(***************************************************************************)
(* Properties of the single-row inserts and updates.                       *)
(***************************************************************************)
\* the rows the WHERE clause of a single-row update matches
RowsMatched(c, table) ==
    CASE c.op = "update_challenge_rewards" ->
            Cardinality({i \in DOMAIN table : table[i].challenge = c.args.challenge})
      [] c.op \in {"update_pool_rewards", "update_pool_claimed"} ->
            Cardinality({i \in DOMAIN table :
                            table[i].authority_pubkey = c.args.pool_authority_pubkey})

\* C20: add_new_pool and add_new_challenge return FailedToInsertRow, and
\* update_challenge_rewards, update_pool_rewards and update_pool_claimed return
\* FailedToUpdateRow, whenever the statement ran without SQL error but the
\* number of rows it inserted / matched is not 1; they return Ok only when it is 1.
C20_RowCountMismatchIsExplicit ==
    [][\A p \in Callers :
          (/\ ledger_pc[p] = "called"
           /\ ledger_pc'[p] = "returned"
           /\ call[p].op \in RowCountUpdates \cup RowCountInserts
           /\ call'[p].res \notin {"FailedToGetConnectionFromPool", "InteractionFailed",
                                   "QueryFailed"}) =>
             LET t == OpTable(call[p].op)
                 n == IF call[p].op \in RowCountInserts
                      THEN Len(db'[t]) - Len(db[t])
                      ELSE RowsMatched(call[p], db[t])
             IN  call'[p].res = IF n = 1 THEN "Ok"
                                ELSE IF call[p].op \in RowCountInserts
                                     THEN "FailedToInsertRow"
                                     ELSE "FailedToUpdateRow"]_vars

\* update_pool_claimed for an authority that matches no pool has returned
\* FailedToUpdateRow, and no pool row has changed
C20_Witness ==
    \E p \in Callers :
       /\ ledger_pc[p] = "returned"
       /\ call[p].op = "update_pool_claimed"
       /\ RowsMatched(call[p], db.pools) = 0
       /\ Len(db.pools) > Len(InitialTables.pools)
       /\ call[p].res = "FailedToUpdateRow"
       /\ db = before[p]

(***************************************************************************)
(* Properties of the txns table.                                           *)
(***************************************************************************)
\* C18: the txns table holds at most one row per signature, and an add_new_txn
\* whose signature is already stored adds no row and does not return Ok.
C18_TxnSignatureDeduplicated ==
    [][/\ \A i, j \in DOMAIN db'.txns :
             db'.txns[i].signature = db'.txns[j].signature => i = j
       /\ \A p \in Callers :
             (/\ ledger_pc[p] = "called"
              /\ ledger_pc'[p] = "returned"
              /\ call[p].op = "add_new_txn"
              /\ \E i \in DOMAIN db.txns : db.txns[i].signature = call[p].args.signature) =>
                /\ db'.txns = db.txns
                /\ call'[p].res # "Ok"]_vars

\* add_new_txn of a signature that the other caller stored while this call was
\* in flight has returned QueryFailed; the table holds one row of it
C18_Witness ==
    \E p \in Callers :
       /\ ledger_pc[p] = "returned"
       /\ call[p].op = "add_new_txn"
       /\ call[p].res = "QueryFailed"
       /\ before[p].txns = <<>>
       /\ Len(db.txns) = 2
       /\ Cardinality({i \in DOMAIN db.txns :
                          db.txns[i].signature = call[p].args.signature}) = 1

(***************************************************************************)
(* Properties of signup.                                                   *)
(***************************************************************************)
\* C19: when signup_user_transaction returns, either it returns Ok and has
\* added the miner row (enabled) and its rewards row, or it returns an error
\* and has added neither; when the pool authority matches no pool, no miner
\* row is left behind.
C19_SignupAllOrNothing ==
    [][\A p \in Callers :
          (/\ ledger_pc[p] = "called"
           /\ ledger_pc'[p] = "returned"
           /\ call[p].op = "signup_user_transaction") =>
             LET a == call[p].args
                 pools == {i \in DOMAIN db.pools :
                             db.pools[i].authority_pubkey = a.pool_authority_pubkey}
             IN  /\ \/ /\ call'[p].res = "Ok"
                       /\ db'.miners = Append(db.miners, [pubkey |-> a.user_pubkey,
                                                         enabled |-> TRUE])
                       /\ Len(db'.rewards) = Len(db.rewards) + 1
                       /\ SubSeq(db'.rewards, 1, Len(db.rewards)) = db.rewards
                       /\ db'.rewards[Len(db'.rewards)].miner_id = Len(db'.miners)
                       /\ db'.rewards[Len(db'.rewards)].pool_id \in pools
                    \/ /\ call'[p].res # "Ok"
                       /\ db'.miners = db.miners
                       /\ db'.rewards = db.rewards
                 /\ pools = {} => call'[p].res # "Ok"]_vars

\* a signup for an authority that matches no pool has returned an error, and
\* the wallet has no miner row, after another wallet has signed up
C19_Witness ==
    \E p \in Callers :
       /\ ledger_pc[p] = "returned"
       /\ call[p].op = "signup_user_transaction"
       /\ call[p].args.pool_authority_pubkey = "authX"
       /\ call[p].res = "QueryFailed"
       /\ ~PubkeyStored(db.miners, call[p].args.user_pubkey)
       /\ Len(db.miners) = Len(InitialTables.miners) + 1
       /\ Len(db.rewards) = Len(InitialTables.rewards) + 1

(***************************************************************************)
(* Properties of claim processing.                                         *)
(***************************************************************************)
\* the miner's balance is the balance at the start of the claim less the amount
ClaimBalanceDecreased ==
    \E i \in DOMAIN db.rewards :
       /\ db.rewards[i].miner_id = claim.miner_id
       /\ db.rewards[i].balance = claim.start.rewards[i].balance - claim.amount

\* exactly one claim record of the amount is linked to a txn row
ClaimRecorded ==
    Cardinality({i \in DOMAIN db.claims :
                    /\ db.claims[i].miner_id = claim.miner_id
                    /\ db.claims[i].amount = claim.amount
                    /\ db.claims[i].txn_id \in DOMAIN db.txns}) = 1

\* the pool's claimed_rewards is its value at the start of the claim plus the amount
ClaimPoolClaimedIncreased ==
    db.pools[1].claimed_rewards = claim.start.pools[1].claimed_rewards + claim.amount

\* C11 (as claimed): once the operations of a claim have stopped (completed or
\* failed at any step) either the miner's balance was decreased by the amount,
\* exactly one claim record linked to a txn row exists and the pool's
\* claimed_rewards was increased by the amount, or none of the three holds.
C11_ClaimAllOrNothing ==
    claim_pc \in {"completed", "failed"} =>
       \/ ClaimBalanceDecreased /\ ClaimRecorded /\ ClaimPoolClaimedIncreased
       \/ ~ClaimBalanceDecreased /\ ~ClaimRecorded /\ ~ClaimPoolClaimedIncreased

(***************************************************************************)
(* Properties of the published timestamps and of the tasks' progress.      *)
(***************************************************************************)
\* the age of a cache's snapshot
Age(c) == now - last_updated_at[c]

\* C21: a cache's last_updated_at never decreases; while it stays the same the
\* age now - last_updated_at only grows; the step that stamps a publish makes
\* the age zero.
C21_TimestampsNeverDecrease ==
    [][\A c \in Caches :
          /\ last_updated_at'[c] >= last_updated_at[c]
          /\ last_updated_at'[c] = last_updated_at[c] => Age(c)' >= Age(c)
          /\ (task_pc[c] = "set_last_updated_at" /\ task_pc'[c] = "drop") => Age(c)' = 0]_vars

\* a cache has been published at a later time than the start, and its age has
\* grown since
C21_Witness ==
    \E c \in Caches :
       /\ published[c].last_updated_at > 0
       /\ published[c].last_updated_at = last_updated_at[c]
       /\ published[c].item # EmptyItem(c)
       /\ Age(c) > 0

\* C22 (as claimed): while the latest-blockhash fetch never succeeds, every
\* other cache whose data source answers with success completes each refresh
\* cycle it starts: from its fetch it reaches the sleep that follows a publish.
C22_OtherCachesKeepPublishing ==
    \A c \in StatsCaches :
       (task_pc[c] = "fetch" /\ c \in responsive)
          ~> (task_pc[c] = "sleep" /\ published[c].item = fetched[c])

\* C23 (as claimed): once cache_update_system has returned, whether
\* stats_enabled is true or false, each of the four caches has its refresh
\* task (the only writer of that cache), and the task is alive.
C23_EveryCacheHasItsTask ==
    started => \A c \in Caches : task_pc[c] \notin {"none", "panicked"}

\* C25: a failed latest-blockhash fetch is followed by the retry sleep and
\* another fetch, and nothing is published while the task fetches or waits to
\* retry; a fetch that succeeded is eventually published with the current
\* time as last_updated_at, and the task issues no further fetch before that.
C25_BlockhashRetriesThenPublishes ==
    /\ [][LET c == "latest_blockhash"
          IN  /\ (task_pc[c] = "fetch" /\ fetch_result'[c] = "err" /\ task_pc'[c] # "fetch")
                    => task_pc'[c] = "retry_sleep"
              /\ (task_pc[c] = "retry_sleep" /\ task_pc'[c] # "retry_sleep")
                    => task_pc'[c] = "fetch"
              /\ task_pc[c] \in {"fetch", "retry_sleep"}
                    => item'[c] = item[c] /\ last_updated_at'[c] = last_updated_at[c]
              /\ (task_pc[c] \notin {"none", "fetch", "retry_sleep"} /\ task_pc'[c] = "fetch")
                    => published[c] = [item |-> fetched[c],
                                       last_updated_at |-> last_updated_at[c]]]_vars
    /\ (task_pc["latest_blockhash"] = "write")
          ~> (/\ task_pc["latest_blockhash"] = "sleep"
              /\ published["latest_blockhash"] = [item |-> fetched["latest_blockhash"],
                                                  last_updated_at |-> now])

\* a blockhash has been published after a failed fetch and its retry sleep
C25_Witness ==
    /\ task_pc["latest_blockhash"] = "sleep"
    /\ fetch_result["latest_blockhash"] = "ok"
    /\ published["latest_blockhash"].item = fetched["latest_blockhash"]
    /\ published["latest_blockhash"].last_updated_at >= LATEST_BLOCKHASH_RETRY_SECS

(***************************************************************************)
(* Properties of the outcomes of ledger calls.                             *)
(***************************************************************************)
Outcomes == {"Ok", "FailedToGetConnectionFromPool", "InteractionFailed", "QueryFailed",
             "FailedToUpdateRow", "FailedToInsertRow"}

\* the statement (or transaction) of call c is rejected on the tables given
StatementRejected(c, tables) ==
    IF c.op = "signup_user_transaction"
    THEN SignupUserTransaction(tables, c.args.user_pubkey,
                               c.args.pool_authority_pubkey).outcome = "Err"
    ELSE Statement(c.op, c.args, tables[OpTable(c.op)]).outcome = "Err"

\* C24: a call returns one of the classified outcomes; when it returns
\* FailedToGetConnectionFromPool or InteractionFailed the ledger is unchanged;
\* otherwise it returns QueryFailed exactly when the statement is rejected
\* (and then the ledger is unchanged), and a row-count failure only from an
\* operation that checks the row count.
C24_EveryCallIsClassified ==
    [][\A p \in Callers :
          (ledger_pc[p] = "called" /\ ledger_pc'[p] = "returned") =>
             LET res == call'[p].res
             IN  /\ res \in Outcomes
                 /\ res \in {"FailedToGetConnectionFromPool", "InteractionFailed"} => db' = db
                 /\ res \notin {"FailedToGetConnectionFromPool", "InteractionFailed"} =>
                       (res = "QueryFailed" <=> StatementRejected(call[p], db))
                 /\ res = "QueryFailed" => db' = db
                 /\ res = "FailedToUpdateRow" => call[p].op \in RowCountUpdates
                 /\ res = "FailedToInsertRow" =>
                       call[p].op \in RowCountInserts \cup RowCountNonZero]_vars

\* a call has returned FailedToGetConnectionFromPool and left the ledger as it
\* was, after earlier calls have changed it
C24_Witness ==
    \E p \in Callers :
       /\ ledger_pc[p] = "returned"
       /\ call[p].res = "FailedToGetConnectionFromPool"
       /\ db = before[p]
       /\ db # InitialTables
       /\ ~StatementRejected(call[p], db)

(***************************************************************************)
(* Properties of the staked-balance batch.                                 *)
(***************************************************************************)
StakedBalanceReturned(p) ==
    /\ ledger_pc[p] = "returned"
    /\ call[p].op = "update_stake_accounts_staked_balance"

\* a second submission of the list leaves the state of the first
SecondSubmissionChangesNothing ==
    \A p \in Callers :
       (StakedBalanceReturned(p) /\ first_attempt[p].res = "Ok") => db = before[p]

\* C26 as stated: after update_stake_accounts_staked_balance returns Ok the
\* staked_balance of the row of every listed entry equals the value of that
\* entry, and a second submission of the list leaves the state of the first.
C26_EveryListedValueIsStored ==
    /\ \A p \in Callers :
          (StakedBalanceReturned(p) /\ call[p].res = "Ok") =>
             \A k \in DOMAIN call[p].args : \A i \in DOMAIN db.stake_accounts :
                db.stake_accounts[i].stake_pda = call[p].args[k].stake_pda =>
                   db.stake_accounts[i].staked_balance = call[p].args[k].staked_balance
    /\ SecondSubmissionChangesNothing

\* C26 amended: after update_stake_accounts_staked_balance returns Ok the
\* staked_balance of every listed stake_pda equals the value of the first
\* entry of the list with that stake_pda, whatever it was before, and a second
\* submission of the list leaves the state of the first.
C26_FirstListedValueIsStored ==
    /\ \A p \in Callers :
          (StakedBalanceReturned(p) /\ call[p].res = "Ok") =>
             \A i \in DOMAIN db.stake_accounts :
                IF db.stake_accounts[i].stake_pda \in StakePdas(call[p].args)
                THEN db.stake_accounts[i].staked_balance =
                        StakedCase(call[p].args, db.stake_accounts[i].stake_pda)
                ELSE db.stake_accounts[i] = before[p].stake_accounts[i]
    /\ SecondSubmissionChangesNothing

\* a list has been submitted twice, both calls returned Ok, and a listed row
\* holds the submitted value, which is not the value it had before
C26_Witness ==
    \E p \in Callers :
       /\ StakedBalanceReturned(p)
       /\ call[p].res = "Ok"
       /\ first_attempt[p].res = "Ok"
       /\ \E i \in DOMAIN db.stake_accounts :
             /\ db.stake_accounts[i].stake_pda \in StakePdas(call[p].args)
             /\ db.stake_accounts[i].staked_balance #
                   first_attempt[p].before.stake_accounts[i].staked_balance
             /\ db.stake_accounts[i].staked_balance > 0

(***************************************************************************)
(* Properties of the challenges table.                                     *)
(***************************************************************************)
\* C27: in every row of challenges, submission_id is set exactly when
\* rewards_earned is set.
C27_SubmissionIdIffRewardsEarned ==
    \A i \in DOMAIN db.challenges :
       (db.challenges[i].submission_id = NULL) <=> (db.challenges[i].rewards_earned = NULL)

(***************************************************************************)
(* Properties of the lookup of a submission by its nonce.                  *)
(***************************************************************************)
IdsWithNonce(nonce) ==
    {db.submissions[i].id : i \in {j \in DOMAIN db.submissions :
                                     db.submissions[j].nonce = nonce}}

\* C28: a returned get_submission_id_with_nonce call has, when submissions
\* have the nonce, either failed to reach the database or returned Ok with
\* one id, the highest id of the submissions with the nonce; when no
\* submission has the nonce it has returned an error.
C28_HighestIdForNonce ==
    \A p \in Callers :
       (ledger_pc[p] = "returned" /\ call[p].op = "get_submission_id_with_nonce") =>
          LET ids == IdsWithNonce(call[p].args.nonce)
          IN  IF ids = {}
              THEN call[p].res \in Outcomes \ {"Ok"}
              ELSE /\ call[p].res \in {"Ok", "FailedToGetConnectionFromPool",
                                        "InteractionFailed"}
                   /\ call[p].res = "Ok" =>
                         /\ call[p].value \in ids
                         /\ \A id \in ids : id <= call[p].value

\* a lookup has returned Ok for a nonce that two or more submissions have
C28_Witness ==
    \E p \in Callers :
       /\ ledger_pc[p] = "returned"
       /\ call[p].op = "get_submission_id_with_nonce"
       /\ call[p].res = "Ok"
       /\ Cardinality(IdsWithNonce(call[p].args.nonce)) >= 2

(***************************************************************************)
(* Properties of the batches of new stake accounts.                        *)
(***************************************************************************)
StakeAccountsUniquelyKeyed ==
    \A i, j \in DOMAIN db.stake_accounts :
       StakeAccountKey(db.stake_accounts[i]) = StakeAccountKey(db.stake_accounts[j]) => i = j

EveryEntryConflicts(entries) ==
    \A k \in DOMAIN entries : KeyConflict(db.stake_accounts, entries[k])

\* C29: no two rows of stake_accounts have the same (pool, staker, mint);
\* an add_new_stake_accounts_batch call leaves every stored row as it was,
\* and when every entry of its list conflicts with a stored row it changes
\* nothing and returns FailedToInsertRow (unless the database was not
\* reached); when it returns Ok every entry's key is stored.
C29_StakeAccountsKeptUnique ==
    /\ []StakeAccountsUniquelyKeyed
    /\ [][\A p \in Callers :
             (/\ ledger_pc[p] = "called"
              /\ ledger_pc'[p] = "returned"
              /\ call[p].op = "add_new_stake_accounts_batch") =>
                /\ Len(db'.stake_accounts) >= Len(db.stake_accounts)
                /\ \A i \in DOMAIN db.stake_accounts :
                      db'.stake_accounts[i] = db.stake_accounts[i]
                /\ EveryEntryConflicts(call[p].args) =>
                      /\ db' = db
                      /\ call'[p].res \in {"FailedToInsertRow", "FailedToGetConnectionFromPool",
                                            "InteractionFailed"}
                /\ call'[p].res = "Ok" =>
                      \A k \in DOMAIN call[p].args :
                         KeyConflict(db'.stake_accounts, call[p].args[k])]_vars

\* a batch whose entries all conflict with stored rows has returned
\* FailedToInsertRow, after an earlier batch has added a row
C29_Witness ==
    \E p \in Callers :
       /\ ledger_pc[p] = "returned"
       /\ call[p].op = "add_new_stake_accounts_batch"
       /\ call[p].args # <<>>
       /\ EveryEntryConflicts(call[p].args)
       /\ call[p].res = "FailedToInsertRow"
       /\ db = before[p]
       /\ Len(db.stake_accounts) > Len(InitialTables.stake_accounts)

(***************************************************************************)
(* Properties of the counters of a pool.                                   *)
(***************************************************************************)
\* a call of operation op on the pool of row returns in this step
PoolCallReturns(op, row) ==
    \E p \in Callers :
       /\ ledger_pc[p] = "called"
       /\ ledger_pc'[p] = "returned"
       /\ call[p].op = op
       /\ call[p].args.pool_authority_pubkey = row.authority_pubkey

\* the amount of the call that returns in this step
ReturningAmount(p) ==
    IF call[p].op = "update_pool_rewards" THEN call[p].args.earned_rewards
    ELSE call[p].args.claimed_rewards

\* C30: the counters of a pool stay in the unsigned 64-bit range and never
\* decrease; total_rewards changes only in a step in which update_pool_rewards
\* returns for the pool, claimed_rewards only in one in which
\* update_pool_claimed does; the change is the amount of the call; a call
\* whose addition would leave the range changes nothing and returns an error.
C30_PoolCountersOnlyGrow ==
    /\ [](\A i \in DOMAIN db.pools : /\ db.pools[i].total_rewards \in 0..MaxU64
                                     /\ db.pools[i].claimed_rewards \in 0..MaxU64)
    /\ [][/\ \A i \in DOMAIN db.pools :
               /\ i \in DOMAIN db'.pools
               /\ db'.pools[i].total_rewards >= db.pools[i].total_rewards
               /\ db'.pools[i].claimed_rewards >= db.pools[i].claimed_rewards
               /\ db'.pools[i].total_rewards # db.pools[i].total_rewards =>
                     PoolCallReturns("update_pool_rewards", db.pools[i])
               /\ db'.pools[i].claimed_rewards # db.pools[i].claimed_rewards =>
                     PoolCallReturns("update_pool_claimed", db.pools[i])
          /\ \A p \in Callers :
               (/\ ledger_pc[p] = "called"
                /\ ledger_pc'[p] = "returned"
                /\ call[p].op \in {"update_pool_rewards", "update_pool_claimed"}) =>
                  \A i \in DOMAIN db.pools :
                     db.pools[i].authority_pubkey = call[p].args.pool_authority_pubkey =>
                        LET old == IF call[p].op = "update_pool_rewards"
                                   THEN db.pools[i].total_rewards
                                   ELSE db.pools[i].claimed_rewards
                            new == IF call[p].op = "update_pool_rewards"
                                   THEN db'.pools[i].total_rewards
                                   ELSE db'.pools[i].claimed_rewards
                        IN  /\ new \in {old, old + ReturningAmount(p)}
                            /\ call'[p].res = "Ok" => new = old + ReturningAmount(p)
                            /\ old + ReturningAmount(p) > MaxU64 =>
                                  (db' = db /\ call'[p].res # "Ok")]_vars

\* update_pool_rewards has returned QueryFailed for an amount that would take
\* total_rewards, increased by earlier calls, out of range; the pool also has
\* claimed rewards
C30_Witness ==
    \E p \in Callers : \E i \in DOMAIN db.pools :
       /\ ledger_pc[p] = "returned"
       /\ call[p].op = "update_pool_rewards"
       /\ call[p].res = "QueryFailed"
       /\ db.pools[i].authority_pubkey = call[p].args.pool_authority_pubkey
       /\ db.pools[i].total_rewards + call[p].args.earned_rewards > MaxU64
       /\ db.pools[i].claimed_rewards > 0
       /\ db = before[p]

(***************************************************************************)
(* Properties of the two reward columns of a stake account.                *)
(***************************************************************************)
\* what has been claimed of stake account i: earned and no longer in the balance
ClaimedOfStake(tables, i) ==
    tables.stake_accounts[i].total_rewards_earned - tables.stake_accounts[i].rewards_balance

\* the amount by which a decrease_stakers_rewards call that returns Ok in this
\* step decreases stake account i
DecreasedInStep(i) ==
    LET returning == {p \in Callers :
                        /\ ledger_pc[p] = "called"
                        /\ ledger_pc'[p] = "returned"
                        /\ call[p].op = "decrease_stakers_rewards"
                        /\ call'[p].res = "Ok"
                        /\ call[p].args.staker_id = i}
    IN  IF returning = {} THEN 0
        ELSE call[CHOOSE p \in returning : TRUE].args.rewards_to_decrease

\* C31: in every stake account total_rewards_earned >= rewards_balance, and
\* their difference grows in every step by exactly the amount a
\* decrease_stakers_rewards call that returns Ok takes from the account (so it
\* is the sum of the amounts decreased); update_stake_accounts_rewards adds
\* the same delta to both columns.
C31_EarnedMinusBalanceIsClaimed ==
    /\ [](\A i \in DOMAIN db.stake_accounts : ClaimedOfStake(db, i) >= 0)
    /\ [][\A i \in DOMAIN db.stake_accounts :
             /\ i \in DOMAIN db'.stake_accounts
             /\ ClaimedOfStake(db', i) = ClaimedOfStake(db, i) + DecreasedInStep(i)]_vars

\* the stake account created with both columns 0 has earned rewards, and a
\* decrease_stakers_rewards call has returned Ok taking part of them
C31_Witness ==
    \E p \in Callers :
       /\ ledger_pc[p] = "returned"
       /\ call[p].op = "decrease_stakers_rewards"
       /\ call[p].res = "Ok"
       /\ call[p].args.staker_id = 1
       /\ InitialTables.stake_accounts[1].total_rewards_earned = 0
       /\ ClaimedOfStake(db, 1) = call[p].args.rewards_to_decrease
       /\ db.stake_accounts[1].rewards_balance > 0

(***************************************************************************)
(* Properties of overlapping signups.                                      *)
(***************************************************************************)
MinersOf(tables, pubkey) ==
    {i \in DOMAIN tables.miners : tables.miners[i].pubkey = pubkey}

RewardsOf(tables, pubkey) ==
    {i \in DOMAIN tables.rewards : tables.rewards[i].miner_id \in MinersOf(tables, pubkey)}

\* C32: every pubkey has at most one miner row and at most one reward row;
\* a signup_user_transaction call that returns Ok has added both for a pubkey
\* that had neither (so no second call for the pubkey returns Ok), and a call
\* that returns an error has added no row.
C32_OneSignupPerPubkey ==
    /\ [](\A pubkey \in UserPubkeyInputs :
            /\ Cardinality(MinersOf(db, pubkey)) <= 1
            /\ Cardinality(RewardsOf(db, pubkey)) <= 1)
    /\ [][\A p \in Callers :
             (/\ ledger_pc[p] = "called"
              /\ ledger_pc'[p] = "returned"
              /\ call[p].op = "signup_user_transaction") =>
                IF call'[p].res = "Ok"
                THEN /\ MinersOf(db, call[p].args.user_pubkey) = {}
                     /\ Cardinality(MinersOf(db', call[p].args.user_pubkey)) = 1
                     /\ Cardinality(RewardsOf(db', call[p].args.user_pubkey)) = 1
                ELSE db' = db]_vars

\* two calls for the same pubkey, both issued before it was stored, have
\* returned: one Ok, the other QueryFailed
C32_Witness ==
    /\ ledger_pc = [p \in Callers |-> "returned"]
    /\ call["c1"].args = call["c2"].args
    /\ call["c1"].res = "Ok"
    /\ call["c2"].res = "QueryFailed"
    /\ \A p \in Callers : MinersOf(before[p], call[p].args.user_pubkey) = {}

(***************************************************************************)
(* Properties of absent accounts in the chain reads.                       *)
(***************************************************************************)
\* the result the returned triple holds for slot i of the read
SlotResult(triple, i) ==
    IF i <= 2 THEN triple[i] ELSE triple[3].value[i - 2]

\* C33: when the batched read reports an account as absent, the call returns
\* with Err(()) for exactly the absent slots and Ok for all other slots; when
\* the batched read fails, the call returns three Err(()).
C33_AbsentSlotsAloneAreErr ==
    [][/\ (busses_pc = "decode" /\ \E i \in DOMAIN datas : datas[i] = "absent") =>
             /\ busses_pc' = "returned"
             /\ busses_result'[3].ok
             /\ \A i \in DOMAIN datas :
                   SlotResult(busses_result', i).ok <=> datas[i] # "absent"
       /\ (busses_pc = "get_multiple_accounts" /\ busses_pc' = "returned") =>
             busses_result' = <<ResultErr, ResultErr, ResultErr>>]_vars

(***************************************************************************)
(* Properties of the entries of the boost-multiplier cache.                *)
(***************************************************************************)
\* C34: every entry of the published boost-multiplier list has the
\* staked_balance of the stake account of its own boost_mint (and the
\* total_stake_balance and multiplier of that mint's boost account).
C34_EntriesPairOneMint ==
    \A i \in DOMAIN published["boost_multiplier"].item :
       LET e == published["boost_multiplier"].item[i]
       IN  /\ e.staked_balance = <<"balance", e.boost_mint>>
           /\ e.total_stake_balance = <<"total_stake", e.boost_mint>>
           /\ e.multiplier = <<"multiplier", e.boost_mint>>

(***************************************************************************)
(* Properties of update_rewards on lists that repeat a miner id.           *)
(***************************************************************************)
\* the list names some miner id more than once
RepeatsMinerId(rewards) ==
    \E j, k \in DOMAIN rewards : j < k /\ rewards[j].miner_id = rewards[k].miner_id

\* entry k is the first of the list for its miner id
FirstForMinerId(rewards, k) ==
    \A j \in DOMAIN rewards : j < k => rewards[j].miner_id # rewards[k].miner_id

\* every listed row has room for the first delta listed for it
FirstDeltasFit(table, rewards) ==
    \A i \in DOMAIN table : \A k \in DOMAIN rewards :
       (rewards[k].miner_id = table[i].miner_id /\ FirstForMinerId(rewards, k)) =>
          table[i].balance + rewards[k].balance <= MaxU64

\* C35 as stated: an update_rewards call whose list repeats a miner id and
\* whose statement runs returns Ok and has added to the balance of every
\* listed miner the delta of the first pair listed for it, once.
C35_RepeatedIdAppliesFirstDeltaAndOk ==
    [][\A p \in Callers :
          (/\ ledger_pc[p] = "called"
           /\ ledger_pc'[p] = "returned"
           /\ call[p].op = "update_rewards"
           /\ RepeatsMinerId(call[p].args)
           /\ call'[p].res \notin {"FailedToGetConnectionFromPool", "InteractionFailed"}) =>
             /\ call'[p].res = "Ok"
             /\ \A i \in DOMAIN db.rewards : \A k \in DOMAIN call[p].args :
                   (/\ call[p].args[k].miner_id = db.rewards[i].miner_id
                    /\ FirstForMinerId(call[p].args, k)) =>
                      db'.rewards[i].balance = db.rewards[i].balance + call[p].args[k].balance]_vars

\* C35 amended: an update_rewards call whose list repeats a miner id and
\* whose statement runs returns Ok and has added to the balance of every
\* listed miner the delta of the first pair listed for it, once, unless some
\* new balance would be out of range: then it returns QueryFailed and no
\* balance changes.
C35_FirstDeltaOfRepeatedIdApplies ==
    [][\A p \in Callers :
          (/\ ledger_pc[p] = "called"
           /\ ledger_pc'[p] = "returned"
           /\ call[p].op = "update_rewards"
           /\ RepeatsMinerId(call[p].args)
           /\ call'[p].res \notin {"FailedToGetConnectionFromPool", "InteractionFailed"}) =>
             IF FirstDeltasFit(db.rewards, call[p].args)
             THEN /\ call'[p].res = "Ok"
                  /\ \A i \in DOMAIN db.rewards : \A k \in DOMAIN call[p].args :
                        (/\ call[p].args[k].miner_id = db.rewards[i].miner_id
                         /\ FirstForMinerId(call[p].args, k)) =>
                           db'.rewards[i].balance =
                              db.rewards[i].balance + call[p].args[k].balance
             ELSE call'[p].res = "QueryFailed" /\ db' = db]_vars

\* update_rewards has returned Ok for a list of two different deltas for the
\* same miner, and the miner's balance has grown by the first
C35_Witness ==
    \E p \in Callers : \E i \in DOMAIN db.rewards :
       /\ ledger_pc[p] = "returned"
       /\ call[p].op = "update_rewards"
       /\ call[p].res = "Ok"
       /\ Len(call[p].args) = 2
       /\ call[p].args[1].miner_id = db.rewards[i].miner_id
       /\ call[p].args[2].miner_id = db.rewards[i].miner_id
       /\ call[p].args[1].balance # call[p].args[2].balance
       /\ db.rewards[i].balance = before[p].rewards[i].balance + call[p].args[1].balance
       /\ before[p].rewards[i].balance > 0

(***************************************************************************)
(* Properties of reward updates that name a miner without a reward row.    *)
(***************************************************************************)
HasRewardRow(table, miner_id) == \E i \in DOMAIN table : table[i].miner_id = miner_id

NamesMissingMiner(table, rewards) ==
    \E k \in DOMAIN rewards : ~HasRewardRow(table, rewards[k].miner_id)

\* a reward call of p returns in this step, its statement having run
RewardCallRuns(p, op) ==
    /\ ledger_pc[p] = "called"
    /\ ledger_pc'[p] = "returned"
    /\ call[p].op = op
    /\ call'[p].res \notin {"FailedToGetConnectionFromPool", "InteractionFailed"}

\* the rows of the listed miners have their first delta added, no row is added
ListedRowsUpdated(p) ==
    /\ Len(db'.rewards) = Len(db.rewards)
    /\ \A i \in DOMAIN db.rewards :
          db'.rewards[i].balance =
             IF \E k \in DOMAIN call[p].args : call[p].args[k].miner_id = db.rewards[i].miner_id
             THEN db.rewards[i].balance +
                     call[p].args[CHOOSE k \in DOMAIN call[p].args :
                                     /\ call[p].args[k].miner_id = db.rewards[i].miner_id
                                     /\ FirstForMinerId(call[p].args, k)].balance
             ELSE db.rewards[i].balance

\* decrease_miner_reward on a miner without a reward row returns Ok and
\* changes nothing
DecreaseOfMissingMinerIsOk ==
    \A p \in Callers :
       (/\ RewardCallRuns(p, "decrease_miner_reward")
        /\ ~HasRewardRow(db.rewards, call[p].args.miner_id)) =>
          call'[p].res = "Ok" /\ db' = db

\* C36 as stated: an update_rewards call whose list names a miner without a
\* reward row returns Ok, having updated the rows of the other listed miners
\* and added no row; decrease_miner_reward on such a miner returns Ok and
\* changes nothing.
C36_MissingMinerIsDroppedAndOk ==
    [][/\ \A p \in Callers :
             (/\ RewardCallRuns(p, "update_rewards")
              /\ NamesMissingMiner(db.rewards, call[p].args)) =>
                call'[p].res = "Ok" /\ ListedRowsUpdated(p)
       /\ DecreaseOfMissingMinerIsOk]_vars

\* C36 amended: an update_rewards call whose list names a miner without a
\* reward row reports no error for it: it returns Ok, having updated the rows
\* of the other listed miners and added no row, unless a new balance of
\* another listed miner would be out of range (then QueryFailed, nothing
\* changed); decrease_miner_reward on such a miner returns Ok and changes
\* nothing.
C36_MissingMinerIsNoError ==
    [][/\ \A p \in Callers :
             (/\ RewardCallRuns(p, "update_rewards")
              /\ NamesMissingMiner(db.rewards, call[p].args)) =>
                IF FirstDeltasFit(db.rewards, call[p].args)
                THEN call'[p].res = "Ok" /\ ListedRowsUpdated(p)
                ELSE call'[p].res = "QueryFailed" /\ db' = db
       /\ DecreaseOfMissingMinerIsOk]_vars

\* update_rewards has returned Ok for a list of a miner with a reward row and
\* one without: the first has its delta, and there is still no row for the
\* second
C36_Witness ==
    \E p \in Callers : \E i \in DOMAIN db.rewards :
       /\ ledger_pc[p] = "returned"
       /\ call[p].op = "update_rewards"
       /\ call[p].res = "Ok"
       /\ Len(call[p].args) = 2
       /\ call[p].args[1].miner_id = db.rewards[i].miner_id
       /\ ~HasRewardRow(db.rewards, call[p].args[2].miner_id)
       /\ db.rewards[i].balance = before[p].rewards[i].balance + call[p].args[1].balance
       /\ Len(db.rewards) = Len(before[p].rewards)

(***************************************************************************)
(* Properties of the batch updates called with an empty list.              *)
(***************************************************************************)
BatchUpdates == {"update_rewards", "update_stake_accounts_staked_balance",
                 "update_stake_accounts_rewards"}

\* C37: a batch update called with an empty list, once its statement is
\* submitted, returns QueryFailed and changes no row of any table.
C37_EmptyBatchIsQueryFailed ==
    [][\A p \in Callers : \A op \in BatchUpdates :
          (RewardCallRuns(p, op) /\ call[p].args = <<>>) =>
             call'[p].res = "QueryFailed" /\ db' = db]_vars

\* a batch update called with an empty list has returned QueryFailed and the
\* tables are as they were when it was called
C37_Witness ==
    \E p \in Callers :
       /\ ledger_pc[p] = "returned"
       /\ call[p].op \in BatchUpdates
       /\ call[p].args = <<>>
       /\ call[p].res = "QueryFailed"
       /\ db = before[p]

(***************************************************************************)
(* Properties of the reward rows of signed-up miners.                      *)
(***************************************************************************)
\* the reward rows selected by `miner_id = id`
RewardRowsOf(table, id) == {i \in DOMAIN table : table[i].miner_id = id}

EveryMinerHasOneRewardRow ==
    \A id \in DOMAIN db.miners : Cardinality(RewardRowsOf(db.rewards, id)) = 1

\* the reward rows of miner id that this step changes
ChangedRewardRowsOf(id) ==
    {i \in RewardRowsOf(db.rewards, id) :
        i \notin DOMAIN db'.rewards \/ db'.rewards[i] # db.rewards[i]}

NoIntermediateLeavesI64(last_hash_at, buffer_time, clock) ==
    /\ last_hash_at + CUTOFF_WINDOW_SECS \in I64
    /\ last_hash_at + CUTOFF_WINDOW_SECS - buffer_time \in I64
    /\ last_hash_at + CUTOFF_WINDOW_SECS - buffer_time - clock \in I64

\* C39: what get_cutoff returns is an i64; it is last_hash_at + 60 -
\* buffer_time - now when no intermediate result leaves the i64 range; and
\* no larger buffer_time of the u64 range gives a larger result for the same
\* proof and clock.
C39_CutoffFormulaAndMonotone ==
    cutoff.pc = "returned" =>
       /\ cutoff.result \in I64
       /\ NoIntermediateLeavesI64(cutoff.last_hash_at, cutoff.buffer_time, cutoff.now) =>
             cutoff.result = cutoff.last_hash_at + CUTOFF_WINDOW_SECS
                                - cutoff.buffer_time - cutoff.now
       /\ \A larger \in cutoff.buffer_time..MaxBufferTime :
             get_cutoff(cutoff.last_hash_at, larger, cutoff.now) <= cutoff.result

\* the same for the buffer times that `as i64` keeps as they are
CutoffHoldsUpToMaxI64 ==
    (cutoff.pc = "returned" /\ cutoff.buffer_time <= MaxI64) =>
       /\ cutoff.result \in I64
       /\ NoIntermediateLeavesI64(cutoff.last_hash_at, cutoff.buffer_time, cutoff.now) =>
             cutoff.result = cutoff.last_hash_at + CUTOFF_WINDOW_SECS
                                - cutoff.buffer_time - cutoff.now
       /\ \A larger \in cutoff.buffer_time..MaxI64 :
             get_cutoff(cutoff.last_hash_at, larger, cutoff.now) <= cutoff.result

====
